---- MODULE Spec2Model ----
(***************************************************************************)
(* The WordPress REST client (WordPressAPI) with its collaborators:        *)
(* WordPressAPIError / ErrorFactory, CacheManager (an LRUCache with ttl,   *)
(* updateAgeOnGet and updateAgeOnHas) and RequestQueue.                    *)
(*                                                                         *)
(* The specifications of the module:                                       *)
(*   Spec       one client (retryCount=2, retryDelay=100, cache.ttl=50,    *)
(*              requestConcurrency=1) serving up to MaxReq get/post calls; *)
(*   SpecCache  the same client serving up to MaxPlain calls that pass no  *)
(*              retryCount;                                                *)
(*   SpecSchema a client constructed with or without validateResponses,    *)
(*              serving up to MaxSchema calls with and without schemas;    *)
(*   SpecLive   a rate-limited client serving up to MaxLive calls, where    *)
(*              every rate-limiter wait and transport call completes;      *)
(*   SpecBackoff  clients with various retryDelay, backoffMultiplier and    *)
(*              maxRetryDelay, serving up to MaxBackoff calls;             *)
(*   SpecQueue  one RequestQueue driven directly by enqueue / settle;      *)
(*   SpecQueueLive  SpecQueue where every started task settles;            *)
(*   SpecError  one WordPressAPIError built by ErrorFactory.create and     *)
(*              passed through the retry gate of _request;                 *)
(*   SpecAuth   a client serving up to MaxAuth calls while setAuthToken is *)
(*              called with empty and non-empty tokens;                    *)
(*   SpecStats  a client serving up to MaxStats calls next to a second     *)
(*              instance making up to MaxPeer calls, with resetStats on    *)
(*              either;                                                    *)
(*   SpecLru    one CacheManager of MaxEntries entries driven directly by  *)
(*              get / has / set / delete / clear;                          *)
(*   SpecClassify  one transport failure classified by the response        *)
(*              interceptor and passed through the retry gate;             *)
(*   SpecConstruct  the constructor called on one base address and one set *)
(*              of options;                                                *)
(*   SpecHits   clients with and without enableCache serving up to MaxHits *)
(*              calls;                                                     *)
(*   SpecRetryQueue  a client with one slot serving up to MaxWaiting posts *)
(*              that are retried once;                                     *)
(*   SpecShared  a client serving up to MaxShared cacheable GETs while the *)
(*              bearer token is set.                                       *)
(* Time is kept as ages: Tick lets TickStep milliseconds pass.             *)
(***************************************************************************)
EXTENDS Integers, Sequences, FiniteSets, TLC

VARIABLES
    options,      \* WordPressAPI.options (with options.cache flattened)
    stats,        \* WordPressAPI.stats
    cache,        \* CacheManager.cache: entries, least recently used first
    concurrency,  \* RequestQueue.concurrency
    queue,        \* RequestQueue.queue
    activeCount,  \* RequestQueue.activeCount
    req,          \* the calls made on the client, one record per call
    lastOp,       \* history: the latest operation on the client
    elapsed,      \* history: time since lastOp
    task,         \* SpecQueue: state of each task handed to enqueue
    started,      \* SpecQueue: the tasks in the order their requestFn was called
    err,          \* SpecError: the error caught by _request
    budget,       \* SpecError: config.retryCount when err is caught
    gate,         \* SpecError: what the catch block of _request did with err
    auth,         \* axios.defaults.headers.common['Authorization'] ("" when unset)
    lastAuth,     \* history: the latest setAuthToken call, its token and its error
    peer,         \* the stats of a second WordPressAPI instance
    uses,         \* history: the cache keys in the order of their latest use
    fail,         \* SpecClassify: the failure the transport rejected with
    ctor          \* SpecConstruct: the constructor's arguments and its outcome

vars == <<options, stats, cache, concurrency, queue, activeCount, req,
          lastOp, elapsed, task, started, err, budget, gate,
          auth, lastAuth, peer, uses, fail, ctor>>

clientVars == <<options, stats, cache, concurrency, queue, activeCount, req,
                lastOp, elapsed>>
queueVars == <<task, started>>
errorVars == <<err, budget, gate>>
extraVars == <<auth, lastAuth, peer, uses, fail, ctor>>

----------------------------------------------------------------------------
(* Bounds of the model *)

MaxReq == 2
MaxPlain == 3
MaxSchema == 1
MaxLive == 2
MaxBackoff == 1
MaxAuth == 1
MaxStats == 2
MaxPeer == 1
MaxEntries == 2
MaxHits == 2
MaxWaiting == 3
MaxShared == 2
MaxTasks == 5
MaxBudget == 2
TickStep == 50

\* the calls made so far or still to be made
Reqs == DOMAIN req
Tasks == 1..MaxTasks

Min(a, b) == IF a <= b THEN a ELSE b
Max(a, b) == IF a >= b THEN a ELSE b

RECURSIVE Pow(_, _)
Pow(b, e) == IF e = 0 THEN 1 ELSE b * Pow(b, e - 1)

RECURSIVE SumOver(_, _)
SumOver(f, S) ==
    IF S = {} THEN 0
    ELSE LET x == CHOOSE y \in S : TRUE IN f[x] + SumOver(f, S \ {x})

----------------------------------------------------------------------------
(* Errors: WordPressAPIError, ERROR_CODES, ErrorFactory *)

RETRYABLE_STATUS_CODES == {408, 429, 500, 502, 503, 504}

ERROR_CODES ==
    {"NETWORK_ERROR", "TIMEOUT_ERROR", "PARSE_ERROR", "VALIDATION_ERROR",
     "AUTH_ERROR", "RATE_LIMIT_ERROR", "CONFIG_ERROR", "ABORT_ERROR",
     "UNKNOWN_ERROR"}

\* status = NoStatus models status === null
NoStatus == 0 - 1

ErrorFactoryCreate(type, status) == [code |-> type, status |-> status]

NoError == [code |-> "NONE", status |-> NoStatus]

isNetworkError(e) == e.code = "NETWORK_ERROR"

isTimeoutErrorNever(e) == FALSE

isTimeoutError(e) == e.code = "TIMEOUT_ERROR"

isRetryableAnyErrorStatus(e) ==
    \/ isNetworkError(e)
    \/ isTimeoutError(e)
    \/ (e.status >= 400)

isRetryableAlsoValidation(e) ==
    \/ isNetworkError(e)
    \/ isTimeoutError(e)
    \/ e.code = "VALIDATION_ERROR"
    \/ (e.status # NoStatus /\ e.status # 0 /\ e.status \in RETRYABLE_STATUS_CODES)

\* (this.status && ...) is falsy for null and for 0
isRetryable(e) ==
    \/ isNetworkError(e)
    \/ isTimeoutError(e)
    \/ (e.status # NoStatus /\ e.status # 0 /\ e.status \in RETRYABLE_STATUS_CODES)

----------------------------------------------------------------------------
(* The transport (axios): what one axios.request call can end with *)

OkStatuses == {200}
FailStatuses == {404, 429, 500, 503}

\* dataValid: response.data parses under the response schemas of the model
Response(s) == [ok |-> TRUE, isAxios |-> FALSE, code |-> "", hasResponse |-> TRUE,
                status |-> s, hasRequest |-> TRUE, dataValid |-> TRUE]

InvalidResponse(s) == [Response(s) EXCEPT !.dataValid = FALSE]

HttpFailure(s) == [ok |-> FALSE, isAxios |-> TRUE, code |-> "ERR_BAD_RESPONSE",
                   hasResponse |-> TRUE, status |-> s, hasRequest |-> TRUE,
                   dataValid |-> FALSE]

TimeoutFailure == [ok |-> FALSE, isAxios |-> TRUE, code |-> "ECONNABORTED",
                   hasResponse |-> FALSE, status |-> NoStatus, hasRequest |-> TRUE,
                   dataValid |-> FALSE]

NetworkFailure == [ok |-> FALSE, isAxios |-> TRUE, code |-> "ERR_NETWORK",
                   hasResponse |-> FALSE, status |-> NoStatus, hasRequest |-> TRUE,
                   dataValid |-> FALSE]

TransportOutcomes ==
    {Response(s) : s \in OkStatuses}
        \cup {HttpFailure(s) : s \in FailStatuses}
        \cup {TimeoutFailure, NetworkFailure}

\* the transport of the schema scenarios: a 200 whose body matches or not, a 503
SchemaOutcomes ==
    {Response(s) : s \in OkStatuses}
        \cup {InvalidResponse(s) : s \in OkStatuses}
        \cup {HttpFailure(503)}

\* what else axios.request rejects with: a socket-level failure with its code
SocketFailure(code) == [NetworkFailure EXCEPT !.code = code]

\* a CanceledError: the caller's signal was aborted, before the request was
\* created (no request) or while it was under way
CanceledFailure(hasRequest) ==
    [NetworkFailure EXCEPT !.code = "ERR_CANCELED", !.hasRequest = hasRequest]

\* an AxiosError raised before anything was sent
SetupFailure ==
    [NetworkFailure EXCEPT !.code = "ERR_BAD_OPTION_VALUE", !.hasRequest = FALSE]

\* an error that is no AxiosError, thrown by an adapter or transformer
OtherFailure ==
    [NetworkFailure EXCEPT !.isAxios = FALSE, !.code = "", !.hasRequest = FALSE]

ResponseErrorInterceptorNoResponseFirst(e) ==
    IF e.isAxios /\ ~e.hasResponse /\ e.hasRequest
    THEN ErrorFactoryCreate("NETWORK_ERROR", NoStatus)
    ELSE IF e.isAxios /\ e.code = "ECONNABORTED"
    THEN ErrorFactoryCreate("TIMEOUT_ERROR", NoStatus)
    ELSE IF e.isAxios /\ e.hasResponse
    THEN IF e.status = 401 \/ e.status = 403
         THEN ErrorFactoryCreate("AUTH_ERROR", e.status)
         ELSE IF e.status = 429
         THEN ErrorFactoryCreate("RATE_LIMIT_ERROR", 429)
         ELSE ErrorFactoryCreate("UNKNOWN_ERROR", e.status)
    ELSE ErrorFactoryCreate("UNKNOWN_ERROR", NoStatus)

ResponseErrorInterceptorNoStatus(e) ==
    IF e.isAxios /\ e.code = "ECONNABORTED"
    THEN ErrorFactoryCreate("TIMEOUT_ERROR", NoStatus)
    ELSE IF e.isAxios /\ e.hasResponse
    THEN IF e.status = 401 \/ e.status = 403
         THEN ErrorFactoryCreate("AUTH_ERROR", e.status)
         ELSE IF e.status = 429
         THEN ErrorFactoryCreate("RATE_LIMIT_ERROR", 429)
         ELSE ErrorFactoryCreate("UNKNOWN_ERROR", NoStatus)
    ELSE IF e.isAxios /\ e.hasRequest
    THEN ErrorFactoryCreate("NETWORK_ERROR", NoStatus)
    ELSE ErrorFactoryCreate("UNKNOWN_ERROR", NoStatus)

\* the rejected branch of the response interceptor
ResponseErrorInterceptor(e) ==
    IF e.isAxios /\ e.code = "ECONNABORTED"
    THEN ErrorFactoryCreate("TIMEOUT_ERROR", NoStatus)
    ELSE IF e.isAxios /\ e.hasResponse
    THEN IF e.status = 401 \/ e.status = 403
         THEN ErrorFactoryCreate("AUTH_ERROR", e.status)
         ELSE IF e.status = 429
         THEN ErrorFactoryCreate("RATE_LIMIT_ERROR", 429)
         ELSE ErrorFactoryCreate("UNKNOWN_ERROR", e.status)
    ELSE IF e.isAxios /\ e.hasRequest
    THEN ErrorFactoryCreate("NETWORK_ERROR", NoStatus)
    ELSE ErrorFactoryCreate("UNKNOWN_ERROR", NoStatus)

----------------------------------------------------------------------------
(* Construction: WordPressAPI.constructor *)

\* retryCount: the option is absent from a call's config
Undef == 0 - 1

DefaultOptions ==
    [retryCount |-> 0, retryDelay |-> 1000, maxRetryDelay |-> 30000,
     backoffMultiplier |-> 2, enableCache |-> TRUE, enableRateLimit |-> FALSE,
     requestConcurrency |-> 5, validateResponses |-> FALSE,
     cacheMaxSize |-> 100, cacheTtl |-> 300000]

\* the client of the spec's scenarios: retryCount=2, retryDelay=100,
\* backoffMultiplier=2, cache.ttl=50
ScenarioOptions ==
    [DefaultOptions EXCEPT !.retryCount = 2, !.retryDelay = 100,
                           !.cacheTtl = 50, !.requestConcurrency = 1]

InitialStats ==
    [totalRequests |-> 0, failedRequests |-> 0, successfulRequests |-> 0,
     retryCount |-> 0, cacheHits |-> 0, cacheMisses |-> 0]

\* no Authorization header among the default headers
NoHeader == <<>>

\* setAuthToken has not been called
NoAuthCall == [called |-> FALSE, token |-> "", error |-> NoError]

\* no CacheManager method has been called
NoUses == [op |-> "none", key |-> <<"", "">>, found |-> FALSE, evicted |-> {},
           oldest |-> <<"", "">>, getSet |-> <<>>, all |-> <<>>]

\* no transport failure is being classified
NoFailure == Response(0)

\* the constructor has not been called on the arguments of the scenario
NoCtor == [baseURL |-> "https://wp.example", given |-> <<>>, result |-> "none",
           error |-> NoError]

\* the variables of the other specifications, as a fresh client leaves them
InitExtra ==
    /\ auth = NoHeader
    /\ lastAuth = NoAuthCall
    /\ peer = [stats |-> InitialStats, pending |-> 0]
    /\ uses = NoUses
    /\ fail = NoFailure
    /\ ctor = NoCtor

----------------------------------------------------------------------------
(* CacheManager: an LRUCache {max, ttl, updateAgeOnGet, updateAgeOnHas}.    *)
(* An entry carries its age (time since it was set or last read), its ttl   *)
(* and, as history, setAge (time since it was set). Ages stop growing once  *)
(* they exceed the ttl: a stale entry stays stale.                          *)

AgeUp(a, ttl) == IF a > ttl THEN a ELSE a + TickStep

RECURSIVE CacheIndex(_, _)
CacheIndex(c, key) ==
    IF c = <<>> THEN 0
    ELSE IF c[Len(c)].key = key THEN Len(c)
    ELSE CacheIndex(SubSeq(c, 1, Len(c) - 1), key)

Without(c, i) == SubSeq(c, 1, i - 1) \o SubSeq(c, i + 1, Len(c))

IsStaleNever(e) == FALSE

\* ttl 0 means the entry never expires
IsStale(e) == e.ttl # 0 /\ e.age > e.ttl

\* uuidv4() called for attempt att of call r at site: "request" (_request),
\* "interceptor" (the request interceptor) or "error" (WordPressAPIError);
\* every call of uuidv4 gives a different id
RequestId(r, att, site) == <<r, att, site>>

NoId == <<0, 0, "">>

NoResult == [status |-> 0, requestId |-> NoId, dataValid |-> TRUE]

NoEntry == [key |-> <<"", "">>, value |-> NoResult, age |-> 0, ttl |-> 0, setAge |-> 0]

CacheManagerGetNoTouch(c, key) ==
    LET i == CacheIndex(c, key) IN
    IF i = 0
    THEN [found |-> FALSE, stale |-> FALSE, entry |-> NoEntry, cache |-> c]
    ELSE IF IsStale(c[i])
    THEN [found |-> FALSE, stale |-> TRUE, entry |-> NoEntry, cache |-> Without(c, i)]
    ELSE [found |-> TRUE, stale |-> FALSE, entry |-> c[i],
          cache |-> [c EXCEPT ![i].age = 0]]

CacheManagerGetNoExpiry(c, key) ==
    LET i == CacheIndex(c, key) IN
    IF i = 0
    THEN [found |-> FALSE, stale |-> FALSE, entry |-> NoEntry, cache |-> c]
    ELSE [found |-> TRUE, stale |-> FALSE, entry |-> c[i],
          cache |-> Append(Without(c, i), [c[i] EXCEPT !.age = 0])]

\* get(key): absent or stale (then dropped) gives undefined; a live entry is
\* returned, becomes the most recently used and has its age reset
CacheManagerGet(c, key) ==
    LET i == CacheIndex(c, key) IN
    IF i = 0
    THEN [found |-> FALSE, stale |-> FALSE, entry |-> NoEntry, cache |-> c]
    ELSE IF IsStale(c[i])
    THEN [found |-> FALSE, stale |-> TRUE, entry |-> NoEntry, cache |-> Without(c, i)]
    ELSE [found |-> TRUE, stale |-> FALSE, entry |-> c[i],
          cache |-> Append(Without(c, i), [c[i] EXCEPT !.age = 0])]

CacheManagerSetNothing(c, key, value, ttl, max) == c

CacheManagerSetKeepsFirst(c, key, value, ttl, max) ==
    IF CacheIndex(c, key) # 0
    THEN c
    ELSE LET all == Append(c, [key |-> key, value |-> value, age |-> 0,
                               ttl |-> ttl, setAge |-> 0])
         IN IF Len(all) > max THEN Tail(all) ELSE all

\* set(key, value, ttl): overwrites, resets the age, evicts the least recently
\* used entry beyond max
CacheManagerSet(c, key, value, ttl, max) ==
    LET i == CacheIndex(c, key)
        rest == IF i = 0 THEN c ELSE Without(c, i)
        all == Append(rest, [key |-> key, value |-> value, age |-> 0,
                             ttl |-> ttl, setAge |-> 0])
    IN IF Len(all) > max THEN Tail(all) ELSE all

\* has(key): tells whether a live entry is there and resets its age
\* (updateAgeOnHas); the order of the entries stays as it is
CacheManagerHas(c, key) ==
    LET i == CacheIndex(c, key) IN
    IF i = 0 \/ IsStale(c[i])
    THEN [found |-> FALSE, cache |-> c]
    ELSE [found |-> TRUE, cache |-> [c EXCEPT ![i].age = 0]]

\* delete(key)
CacheManagerDelete(c, key) ==
    LET i == CacheIndex(c, key) IN IF i = 0 THEN c ELSE Without(c, i)

CacheManagerClearKeep(c) == c

\* clear()
CacheManagerClear(c) == <<>>

CacheTick(c) ==
    [i \in 1..Len(c) |->
        [c[i] EXCEPT !.age = AgeUp(@, c[i].ttl), !.setAge = AgeUp(@, c[i].ttl)]]

----------------------------------------------------------------------------
(* RequestQueue *)

\* _process: admits the head when a slot is free
RequestQueueProcessNoLimit(q, a, c) ==
    IF q = <<>>
    THEN [queue |-> q, activeCount |-> a, started |-> <<>>]
    ELSE [queue |-> Tail(q), activeCount |-> a + 1, started |-> <<Head(q)>>]

RequestQueueProcessLifo(q, a, c) ==
    IF a >= c \/ q = <<>>
    THEN [queue |-> q, activeCount |-> a, started |-> <<>>]
    ELSE [queue |-> SubSeq(q, 1, Len(q) - 1), activeCount |-> a + 1,
          started |-> <<q[Len(q)]>>]

RequestQueueProcessNever(q, a, c) ==
    [queue |-> q, activeCount |-> a, started |-> <<>>]

RequestQueueProcess(q, a, c) ==
    IF a >= c \/ q = <<>>
    THEN [queue |-> q, activeCount |-> a, started |-> <<>>]
    ELSE [queue |-> Tail(q), activeCount |-> a + 1, started |-> <<Head(q)>>]

RequestQueueEnqueueNoProcess(q, a, c, x) ==
    [queue |-> Append(q, x), activeCount |-> a, started |-> <<>>]

\* enqueue: push, then _process
RequestQueueEnqueue(q, a, c, x) == RequestQueueProcess(Append(q, x), a, c)

RequestQueueClearKeepsHead(q) == IF q = <<>> THEN q ELSE <<Head(q)>>

\* clear(): this.queue = []
RequestQueueClear(q) == <<>>

RequestQueueSettleKeepsSlot(q, a, c) ==
    [queue |-> q, activeCount |-> a, started |-> <<>>]

RequestQueueSettleNoProcess(q, a, c) ==
    [queue |-> q, activeCount |-> a - 1, started |-> <<>>]

\* the finally block of _process: activeCount--, then _process
RequestQueueSettle(q, a, c) == RequestQueueProcess(q, a - 1, c)

----------------------------------------------------------------------------
(* WordPressAPI: the calls and their progress *)

\* a call passes no retryCount, or retryCount: MaxBudget
RetryOptions == {Undef, MaxBudget}

\* the config built by get / post: cache is (config.cache !== false)
\* responseSchema: options.responseSchema is given; schema: options.schema is
\* given; validate: (options.validate !== false); bodyValid: data parses under
\* options.schema
Calls ==
    [method : {"GET"}, url : {"/posts"}, cache : {TRUE}, retryCount : RetryOptions,
     responseSchema : {FALSE}, schema : {FALSE}, validate : {TRUE}, bodyValid : {TRUE}]
        \cup [method : {"GET"}, url : {"/posts"}, cache : {FALSE}, retryCount : {Undef},
               responseSchema : {FALSE}, schema : {FALSE}, validate : {TRUE},
               bodyValid : {TRUE}]
        \cup [method : {"POST"}, url : {"/posts"}, cache : {TRUE}, retryCount : {Undef},
               responseSchema : {FALSE}, schema : {FALSE}, validate : {TRUE},
               bodyValid : {TRUE}]

\* the calls of the schema scenarios: getPosts-like GETs with or without a
\* responseSchema, createPost-like POSTs with or without a schema
SchemaCalls ==
    [method : {"GET"}, url : {"/posts"}, cache : {TRUE}, retryCount : RetryOptions,
     responseSchema : BOOLEAN, schema : {FALSE}, validate : {TRUE}, bodyValid : {TRUE}]
        \cup [method : {"POST"}, url : {"/posts"}, cache : {TRUE}, retryCount : RetryOptions,
               responseSchema : {FALSE}, schema : {TRUE}, validate : BOOLEAN,
               bodyValid : BOOLEAN]
        \cup [method : {"POST"}, url : {"/posts"}, cache : {TRUE}, retryCount : {Undef},
               responseSchema : {FALSE}, schema : {FALSE}, validate : {TRUE},
               bodyValid : {FALSE}]

\* the calls that pass no retryCount
PlainCalls == {c \in Calls : c.retryCount = Undef}

NoCall == [method |-> "", url |-> "", cache |-> TRUE, retryCount |-> Undef,
           responseSchema |-> FALSE, schema |-> FALSE, validate |-> TRUE,
           bodyValid |-> TRUE]

\* lastOp: a transport success ("resolved", by call r), clearCache ("clear"),
\* or anything else
NoOp == [op |-> "other", r |-> 0]

IdleReq ==
    [pc |-> "idle", call |-> NoCall, left |-> Undef, att |-> 0, tcalls |-> 0,
     retries |-> 0, delays |-> <<>>, rem |-> 0, hit |-> FALSE,
     outcome |-> "none", result |-> NoResult, error |-> NoError, errorId |-> NoId,
     allRetryable |-> TRUE, servedStoredLate |-> FALSE, servedIdleLate |-> FALSE,
     expired |-> FALSE, afterClear |-> FALSE, sentAuth |-> NoHeader,
     failure |-> NoFailure, tokens |-> 0, issuedAuth |-> NoHeader]

getCacheKeyWithAuthorization(call) == <<call.method, call.url, auth>>

\* params and data are {} in every call of the model
getCacheKey(call) == <<call.method, call.url>>

UsesCacheAnyMethod(call) == options.enableCache

UsesCacheIgnoresEnable(call) == call.method = "GET"

\* config.method?.toLowerCase() === 'get' && this.options.enableCache
UsesCache(call) == call.method = "GET" /\ options.enableCache

\* the attempt argument of _retryRequest as _request passes it: left to its default
DefaultAttempt == 0

calculateRetryDelayNoCap(attempt) ==
    options.retryDelay * Pow(options.backoffMultiplier, attempt)

\* _calculateRetryDelay(attempt)
calculateRetryDelay(attempt) ==
    Min(options.retryDelay * Pow(options.backoffMultiplier, attempt),
        options.maxRetryDelay)

ShouldRetryOffByOne(left, e) == left >= 0 /\ isRetryable(e)

ShouldRetryAnyError(left, e) == left > 0

\* the retry gate of the catch block

ShouldRetry(left, e) == left > 0 /\ isRetryable(e)

\* requestFn of the admitted tasks is called: axios.request goes out, with the
\* default headers of that moment
StartAll(rq, S) ==
    [x \in Reqs |->
        IF \E i \in 1..Len(S) : S[i] = x
        THEN [rq[x] EXCEPT !.pc = "inflight", !.tcalls = @ + 1, !.sentAuth = auth]
        ELSE rq[x]]

\* history: operation o is the latest one
Record(o) ==
    /\ lastOp' = o
    /\ elapsed' = 0

\* _request from the cache check on: a hit returns the cached result, a miss
\* hands executeRequest to the queue
CacheCheckAndDispatch(r, rec, st) ==
    LET key == getCacheKey(rec.call)
        g == CacheManagerGet(cache, key)
    IN IF UsesCache(rec.call) /\ g.found
       THEN /\ stats' = [st EXCEPT !.cacheHits = @ + 1]
            /\ cache' = g.cache
            /\ req' = [req EXCEPT ![r] =
                          [rec EXCEPT !.pc = "done", !.outcome = "resolved",
                                      !.result = g.entry.value, !.hit = TRUE,
                                      !.servedStoredLate = g.entry.setAge > g.entry.ttl,
                                      !.servedIdleLate = g.entry.age > g.entry.ttl]]
            /\ Record(NoOp)
            /\ UNCHANGED <<queue, activeCount>>
       ELSE LET p == RequestQueueEnqueue(queue, activeCount, concurrency, r)
            IN /\ stats' = IF UsesCache(rec.call)
                           THEN [st EXCEPT !.cacheMisses = @ + 1]
                           ELSE st
               /\ cache' = IF UsesCache(rec.call) THEN g.cache ELSE cache
               /\ queue' = p.queue
               /\ activeCount' = p.activeCount
               /\ req' = StartAll([req EXCEPT ![r] =
                             [rec EXCEPT !.pc = "queued",
                                         !.expired = @ \/ (UsesCache(rec.call) /\ g.stale),
                                         !.afterClear = @ \/ (UsesCache(rec.call)
                                                              /\ lastOp.op = "clear")]],
                                  p.started)
               /\ Record(NoOp)

EnterRequestNoCount(r, rec) ==
    IF options.enableRateLimit
    THEN /\ stats' = stats
         /\ req' = [req EXCEPT ![r] = [rec EXCEPT !.pc = "rateWait"]]
         /\ UNCHANGED <<cache, queue, activeCount, lastOp, elapsed>>
    ELSE CacheCheckAndDispatch(r, rec, stats)

\* _request up to the rate limiter
EnterRequest(r, rec) ==
    LET st == [stats EXCEPT !.totalRequests = @ + 1] IN
    IF options.enableRateLimit
    THEN /\ stats' = st
         /\ req' = [req EXCEPT ![r] = [rec EXCEPT !.pc = "rateWait"]]
         /\ UNCHANGED <<cache, queue, activeCount, lastOp, elapsed>>
    ELSE CacheCheckAndDispatch(r, rec, st)

\* post(): options.validate !== false && options.schema, and parse(data) throws
BodyRejectedNever(call) == FALSE

BodyRejected(call) ==
    call.method = "POST" /\ call.validate /\ call.schema /\ ~call.bodyValid

\* get(endpoint, params, options) / post(endpoint, data, options)
Issue(r, call) ==
    /\ req[r].pc = "idle"
    /\ \A x \in Reqs : x < r => req[x].pc # "idle"
    /\ IF BodyRejected(call)
       THEN /\ req' = [req EXCEPT ![r] =
                          [IdleReq EXCEPT !.call = call, !.left = call.retryCount,
                                          !.pc = "done", !.outcome = "rejected",
                                          !.error = ErrorFactoryCreate("VALIDATION_ERROR",
                                                                       NoStatus),
                                          !.errorId = RequestId(r, 0, "error"),
                                          !.allRetryable = FALSE,
                                          !.issuedAuth = auth]]
            /\ Record(NoOp)
            /\ UNCHANGED <<stats, cache, queue, activeCount>>
       ELSE EnterRequest(r, [IdleReq EXCEPT !.call = call, !.left = call.retryCount,
                                            !.att = 1, !.issuedAuth = auth])
    /\ UNCHANGED <<options, concurrency, queueVars, errorVars, extraVars>>

\* rateLimiter.removeTokens(1) resolves
TokenGranted(r) ==
    /\ req[r].pc = "rateWait"
    /\ CacheCheckAndDispatch(r, [req[r] EXCEPT !.tokens = @ + 1], stats)
    /\ UNCHANGED <<options, concurrency, queueVars, errorVars, extraVars>>

ThrownNoValidation(rec, out) ==
    IF ~out.ok THEN ResponseErrorInterceptor(out) ELSE NoError

\* executeRequest after axios.request settled with out: the error it throws,
\* NoError when it returns a result
Thrown(rec, out) ==
    IF ~out.ok
    THEN ResponseErrorInterceptor(out)
    ELSE IF options.validateResponses /\ rec.call.responseSchema /\ ~out.dataValid
    THEN ErrorFactoryCreate("VALIDATION_ERROR", NoStatus)
    ELSE NoError

\* axios.request settles with out; executeRequest, _process and _request run on
TransportDone(r, out) ==
    /\ req[r].pc = "inflight"
    /\ LET rec == req[r]
           p == RequestQueueSettle(queue, activeCount, concurrency)
           e == Thrown(rec, out)
       IN /\ queue' = p.queue
          /\ activeCount' = p.activeCount
          /\ IF e = NoError
             THEN LET result == [status |-> out.status,
                                 requestId |-> RequestId(r, rec.att, "request"),
                                 dataValid |-> out.dataValid]
                  IN /\ cache' = IF UsesCache(rec.call) /\ rec.call.cache
                                 THEN CacheManagerSet(cache, getCacheKey(rec.call), result,
                                                      options.cacheTtl, options.cacheMaxSize)
                                 ELSE cache
                     /\ stats' = [stats EXCEPT !.successfulRequests = @ + 1]
                     /\ req' = StartAll([req EXCEPT ![r] =
                                   [rec EXCEPT !.pc = "done", !.outcome = "resolved",
                                               !.result = result,
                                               !.allRetryable = FALSE]], p.started)
                     /\ Record([op |-> "resolved", r |-> r])
             ELSE LET delay == calculateRetryDelay(DefaultAttempt)
                      id == RequestId(r, rec.att,
                                      IF out.ok THEN "request" ELSE "interceptor")
                  IN /\ cache' = cache
                     /\ Record(NoOp)
                     /\ IF ShouldRetry(rec.left, e)
                        THEN /\ stats' = [stats EXCEPT !.failedRequests = @ + 1,
                                                       !.retryCount = @ + 1]
                             /\ req' = StartAll([req EXCEPT ![r] =
                                   [rec EXCEPT !.pc = "backoff", !.retries = @ + 1,
                                               !.delays = Append(@, delay),
                                               !.rem = delay, !.error = e,
                                               !.errorId = id,
                                               !.failure = IF out.ok THEN NoFailure
                                                           ELSE out]],
                                   p.started)
                        ELSE /\ stats' = [stats EXCEPT !.failedRequests = @ + 1]
                             /\ req' = StartAll([req EXCEPT ![r] =
                                   [rec EXCEPT !.pc = "done", !.outcome = "rejected",
                                               !.error = e, !.errorId = id,
                                               !.allRetryable = isRetryable(e),
                                               !.failure = IF out.ok THEN NoFailure
                                                           ELSE out]],
                                   p.started)
    /\ UNCHANGED <<options, concurrency, queueVars, errorVars, extraVars>>

\* the setTimeout of _retryRequest fires: _request(retryConfig)
BackoffDone(r) ==
    /\ req[r].pc = "backoff"
    /\ req[r].rem = 0
    /\ EnterRequest(r, [req[r] EXCEPT !.left = @ - 1, !.att = @ + 1,
                                      !.error = NoError, !.errorId = NoId,
                                      !.failure = NoFailure])
    /\ UNCHANGED <<options, concurrency, queueVars, errorVars, extraVars>>

\* clearCache(); on an empty cache it changes nothing
ClearCache ==
    /\ cache # <<>>
    /\ cache' = CacheManagerClear(cache)
    /\ Record([op |-> "clear", r |-> 0])
    /\ UNCHANGED <<options, stats, concurrency, queue, activeCount, req,
                   queueVars, errorVars, extraVars>>

\* the tokens callers pass to setAuthToken; "" is the falsy one
Tokens == {"", "t1", "t2"}

\* `Bearer ${token}`
Bearer(token) == <<"Bearer", token>>

SetAuthTokenHeaderAlways(header, token) == Bearer(token)

\* the Authorization header after setAuthToken(token)
SetAuthTokenHeader(header, token) == IF token = "" THEN header ELSE Bearer(token)

\* the error setAuthToken(token) throws
SetAuthTokenError(token) ==
    IF token = "" THEN ErrorFactoryCreate("VALIDATION_ERROR", NoStatus) ELSE NoError

\* setAuthToken(token)
SetAuthToken(token) ==
    /\ auth' = SetAuthTokenHeader(auth, token)
    /\ lastAuth' = [called |-> TRUE, token |-> token, error |-> SetAuthTokenError(token)]
    /\ UNCHANGED <<clientVars, queueVars, errorVars, peer, uses, fail, ctor>>

\* a / b * 100 in floating point, for a, b >= 0: NaN for 0 / 0, Infinity for
\* a / 0 with a > 0, else the fraction num / den
Percent(a, b) ==
    IF b = 0 /\ a = 0 THEN [nan |-> TRUE, inf |-> FALSE, num |-> 0, den |-> 1]
    ELSE IF b = 0 THEN [nan |-> FALSE, inf |-> TRUE, num |-> 0, den |-> 1]
    ELSE [nan |-> FALSE, inf |-> FALSE, num |-> a * 100, den |-> b]

\* getStats().cacheHitRate
getStatsCacheHitRate ==
    IF stats.totalRequests > 0
    THEN Percent(stats.cacheHits, stats.cacheHits + stats.cacheMisses)
    ELSE [nan |-> FALSE, inf |-> FALSE, num |-> 0, den |-> 1]

ResetStatsKeepsRetryCount == [InitialStats EXCEPT !.retryCount = stats.retryCount]

\* the object resetStats assigns to this.stats
ResetStatsValue == InitialStats

\* resetStats()
ResetStats ==
    /\ stats' = ResetStatsValue
    /\ UNCHANGED <<options, cache, concurrency, queue, activeCount, req, lastOp,
                   elapsed, queueVars, errorVars, extraVars>>

\* the second instance, whose caller makes one call at a time, enters
\* _request: its own totalRequests++
PeerRequest ==
    /\ peer.stats.totalRequests < MaxPeer
    /\ peer.pending = 0
    /\ peer' = [stats |-> [peer.stats EXCEPT !.totalRequests = @ + 1],
                pending |-> peer.pending + 1]
    /\ UNCHANGED <<clientVars, queueVars, errorVars, auth, lastAuth, uses, fail, ctor>>

\* a call of the second instance, made with no retryCount and no caching,
\* settles: its own successfulRequests++ or failedRequests++
PeerSettle(ok) ==
    /\ peer.pending > 0
    /\ peer' = [stats |-> IF ok
                          THEN [peer.stats EXCEPT !.successfulRequests = @ + 1]
                          ELSE [peer.stats EXCEPT !.failedRequests = @ + 1],
                pending |-> peer.pending - 1]
    /\ UNCHANGED <<clientVars, queueVars, errorVars, auth, lastAuth, uses, fail, ctor>>

\* resetStats() on the second instance
PeerResetStats ==
    /\ peer' = [peer EXCEPT !.stats = ResetStatsValue]
    /\ UNCHANGED <<clientVars, queueVars, errorVars, auth, lastAuth, uses, fail, ctor>>

\* TickStep milliseconds pass
Tick ==
    /\ cache' = CacheTick(cache)
    /\ elapsed' = IF lastOp.op = "resolved"
                  THEN AgeUp(elapsed, options.cacheTtl)
                  ELSE elapsed
    /\ req' = [x \in Reqs |->
                  IF req[x].pc = "backoff"
                  THEN [req[x] EXCEPT !.rem = Max(@ - TickStep, 0)]
                  ELSE req[x]]
    /\ UNCHANGED <<options, stats, concurrency, queue, activeCount, lastOp,
                   queueVars, errorVars, extraVars>>

Init ==
    /\ options = ScenarioOptions
    /\ stats = InitialStats
    /\ cache = <<>>
    /\ concurrency = options.requestConcurrency
    /\ queue = <<>>
    /\ activeCount = 0
    /\ req = [r \in 1..MaxReq |-> IdleReq]
    /\ lastOp = NoOp
    /\ elapsed = 0
    /\ task = [t \in Tasks |-> "new"]
    /\ started = <<>>
    /\ err = NoError
    /\ budget = Undef
    /\ gate = "none"
    /\ InitExtra

Next ==
    \/ \E r \in Reqs, call \in Calls : Issue(r, call)
    \/ \E r \in Reqs, out \in TransportOutcomes : TransportDone(r, out)
    \/ \E r \in Reqs : BackoffDone(r)
    \/ ClearCache
    \/ Tick

Spec == Init /\ [][Next]_vars

InitCache ==
    /\ options = ScenarioOptions
    /\ stats = InitialStats
    /\ cache = <<>>
    /\ concurrency = options.requestConcurrency
    /\ queue = <<>>
    /\ activeCount = 0
    /\ req = [r \in 1..MaxPlain |-> IdleReq]
    /\ lastOp = NoOp
    /\ elapsed = 0
    /\ task = [t \in Tasks |-> "new"]
    /\ started = <<>>
    /\ err = NoError
    /\ budget = Undef
    /\ gate = "none"
    /\ InitExtra

NextCache ==
    \/ \E r \in Reqs, call \in PlainCalls : Issue(r, call)
    \/ \E r \in Reqs, out \in TransportOutcomes : TransportDone(r, out)
    \/ ClearCache
    \/ Tick

SpecCache == InitCache /\ [][NextCache]_vars

\* new WordPressAPI(baseURL, {..., enableRateLimit: true})
LimitedOptions == [ScenarioOptions EXCEPT !.enableRateLimit = TRUE]

\* the calls and the transport of the rate-limited client
LiveCalls ==
    {c \in Calls : \/ c.method = "GET" /\ c.retryCount = MaxBudget
                   \/ c.method = "POST"}

LiveOutcomes == {Response(200), HttpFailure(503)}

InitLive ==
    /\ options = LimitedOptions
    /\ stats = InitialStats
    /\ cache = <<>>
    /\ concurrency = options.requestConcurrency
    /\ queue = <<>>
    /\ activeCount = 0
    /\ req = [r \in 1..MaxLive |-> IdleReq]
    /\ lastOp = NoOp
    /\ elapsed = 0
    /\ task = [t \in Tasks |-> "new"]
    /\ started = <<>>
    /\ err = NoError
    /\ budget = Undef
    /\ gate = "none"
    /\ InitExtra

NextLive ==
    \/ \E r \in Reqs, call \in LiveCalls : Issue(r, call)
    \/ \E r \in Reqs : TokenGranted(r)
    \/ \E r \in Reqs, out \in LiveOutcomes : TransportDone(r, out)
    \/ \E r \in Reqs : BackoffDone(r)
    \/ ClearCache
    \/ Tick

\* a rate-limiter wait is over, a transport call settles, a retry timer fires
\* or time passes
Progress ==
    \/ \E r \in Reqs : TokenGranted(r)
    \/ \E r \in Reqs, out \in LiveOutcomes : TransportDone(r, out)
    \/ \E r \in Reqs : BackoffDone(r)
    \/ Tick

\* the client does not stop while a wait, a transport call or a timer is pending
SpecLive == InitLive /\ [][NextLive]_vars /\ WF_vars(Progress)

\* new WordPressAPI(baseURL, {retryDelay, backoffMultiplier, maxRetryDelay}):
\* retryDelay must be positive, the other two are not validated
BackoffOptions ==
    {[ScenarioOptions EXCEPT !.retryDelay = d, !.backoffMultiplier = m,
                             !.maxRetryDelay = x] :
        d \in {60, 100}, m \in {1, 2, 3}, x \in {50, 150, 30000}}

InitBackoff ==
    /\ options \in BackoffOptions
    /\ stats = InitialStats
    /\ cache = <<>>
    /\ concurrency = options.requestConcurrency
    /\ queue = <<>>
    /\ activeCount = 0
    /\ req = [r \in 1..MaxBackoff |-> IdleReq]
    /\ lastOp = NoOp
    /\ elapsed = 0
    /\ task = [t \in Tasks |-> "new"]
    /\ started = <<>>
    /\ err = NoError
    /\ budget = Undef
    /\ gate = "none"
    /\ InitExtra

SpecBackoff == InitBackoff /\ [][Next]_vars

\* new WordPressAPI(baseURL, {..., validateResponses})
SchemaOptions ==
    {[ScenarioOptions EXCEPT !.validateResponses = v] : v \in BOOLEAN}

InitSchema ==
    /\ options \in SchemaOptions
    /\ stats = InitialStats
    /\ cache = <<>>
    /\ concurrency = options.requestConcurrency
    /\ queue = <<>>
    /\ activeCount = 0
    /\ req = [r \in 1..MaxSchema |-> IdleReq]
    /\ lastOp = NoOp
    /\ elapsed = 0
    /\ task = [t \in Tasks |-> "new"]
    /\ started = <<>>
    /\ err = NoError
    /\ budget = Undef
    /\ gate = "none"
    /\ InitExtra

NextSchema ==
    \/ \E r \in Reqs, call \in SchemaCalls : Issue(r, call)
    \/ \E r \in Reqs, out \in SchemaOutcomes : TransportDone(r, out)
    \/ \E r \in Reqs : BackoffDone(r)
    \/ ClearCache
    \/ Tick

SpecSchema == InitSchema /\ [][NextSchema]_vars

----------------------------------------------------------------------------
(* RequestQueue on its own: tasks 1..MaxTasks are handed to enqueue in     *)
(* that order; a running task settles at any later time                    *)

\* enqueue(requestFn)
QEnqueue(t) ==
    /\ task[t] = "new"
    /\ \A x \in Tasks : x < t => task[x] # "new"
    /\ LET p == RequestQueueEnqueue(queue, activeCount, concurrency, t)
       IN /\ queue' = p.queue
          /\ activeCount' = p.activeCount
          /\ started' = started \o p.started
          /\ task' = [x \in Tasks |->
                         IF \E i \in 1..Len(p.started) : p.started[i] = x
                         THEN "running"
                         ELSE IF x = t THEN "waiting" ELSE task[x]]
    /\ UNCHANGED <<options, stats, cache, concurrency, req, lastOp, elapsed,
                   errorVars, extraVars>>

\* the awaited requestFn() of a running task settles; the rest of _process runs
QSettle(t, ok) ==
    /\ task[t] = "running"
    /\ LET p == RequestQueueSettle(queue, activeCount, concurrency)
       IN /\ queue' = p.queue
          /\ activeCount' = p.activeCount
          /\ started' = started \o p.started
          /\ task' = [x \in Tasks |->
                         IF \E i \in 1..Len(p.started) : p.started[i] = x
                         THEN "running"
                         ELSE IF x = t
                         THEN (IF ok THEN "resolved" ELSE "rejected")
                         ELSE task[x]]
    /\ UNCHANGED <<options, stats, cache, concurrency, req, lastOp, elapsed,
                   errorVars, extraVars>>

\* clear(): the waiting tasks are dropped, their promises stay pending
QClear ==
    /\ queue # <<>>
    /\ queue' = RequestQueueClear(queue)
    /\ task' = [x \in Tasks |->
                   IF /\ \E i \in 1..Len(queue) : queue[i] = x
                      /\ ~\E i \in 1..Len(queue') : queue'[i] = x
                   THEN "dropped"
                   ELSE task[x]]
    /\ UNCHANGED <<options, stats, cache, concurrency, activeCount, req, lastOp,
                   elapsed, started, errorVars, extraVars>>

InitQueue ==
    /\ options = DefaultOptions
    /\ stats = InitialStats
    /\ cache = <<>>
    /\ concurrency \in {1, 2}
    /\ queue = <<>>
    /\ activeCount = 0
    /\ req = <<>>
    /\ lastOp = NoOp
    /\ elapsed = 0
    /\ task = [t \in Tasks |-> "new"]
    /\ started = <<>>
    /\ err = NoError
    /\ budget = Undef
    /\ gate = "none"
    /\ InitExtra

NextQueue ==
    \/ \E t \in Tasks : QEnqueue(t)
    \/ \E t \in Tasks, ok \in BOOLEAN : QSettle(t, ok)
    \/ QClear

SpecQueue == InitQueue /\ [][NextQueue]_vars

\* every requestFn that was called settles in the end
SpecQueueLive ==
    SpecQueue /\ \A t \in Tasks : WF_vars(\E ok \in BOOLEAN : QSettle(t, ok))

----------------------------------------------------------------------------
(* A client whose callers also set the bearer token *)

AuthCalls == {c \in Calls : c.cache /\ c.retryCount # Undef}

InitAuth ==
    /\ options = ScenarioOptions
    /\ stats = InitialStats
    /\ cache = <<>>
    /\ concurrency = options.requestConcurrency
    /\ queue = <<>>
    /\ activeCount = 0
    /\ req = [r \in 1..MaxAuth |-> IdleReq]
    /\ lastOp = NoOp
    /\ elapsed = 0
    /\ task = [t \in Tasks |-> "new"]
    /\ started = <<>>
    /\ err = NoError
    /\ budget = Undef
    /\ gate = "none"
    /\ InitExtra

NextAuth ==
    \/ \E r \in Reqs, call \in AuthCalls : Issue(r, call)
    \/ \E r \in Reqs, out \in LiveOutcomes : TransportDone(r, out)
    \/ \E r \in Reqs : BackoffDone(r)
    \/ \E token \in Tokens : SetAuthToken(token)
    \/ Tick

SpecAuth == InitAuth /\ [][NextAuth]_vars

----------------------------------------------------------------------------
(* Two clients, each with its own stats, and resetStats on either *)

\* the retry delay is over after one Tick
StatsOptions == [ScenarioOptions EXCEPT !.retryDelay = 1]

\* get('/posts', {}, {retryCount: 1})
StatsCalls == {[c EXCEPT !.retryCount = 1] : c \in AuthCalls}

InitStats ==
    /\ options = StatsOptions
    /\ stats = InitialStats
    /\ cache = <<>>
    /\ concurrency = options.requestConcurrency
    /\ queue = <<>>
    /\ activeCount = 0
    /\ req = [r \in 1..MaxStats |-> IdleReq]
    /\ lastOp = NoOp
    /\ elapsed = 0
    /\ task = [t \in Tasks |-> "new"]
    /\ started = <<>>
    /\ err = NoError
    /\ budget = Undef
    /\ gate = "none"
    /\ InitExtra

NextStats ==
    \/ \E r \in Reqs, call \in StatsCalls : Issue(r, call)
    \/ \E r \in Reqs, out \in LiveOutcomes : TransportDone(r, out)
    \/ \E r \in Reqs : BackoffDone(r)
    \/ Tick
    \/ ResetStats
    \/ PeerRequest
    \/ \E ok \in BOOLEAN : PeerSettle(ok)
    \/ PeerResetStats

SpecStats == InitStats /\ [][NextStats]_vars

----------------------------------------------------------------------------
(* One CacheManager of MaxEntries entries driven directly, over one key     *)
(* more than it can hold. uses keeps, as history, the keys of the cache in  *)
(* the order of their latest get or set (getSet) and of their latest get,   *)
(* has or set (all), the keys the latest set evicted and the key that was   *)
(* the oldest of all before it.                                             *)

Urls == <<"/a", "/b", "/c", "/d", "/e">>

LruKeys == {<<"GET", Urls[i]>> : i \in 1..(MaxEntries + 1)}

LruOptions == [ScenarioOptions EXCEPT !.cacheMaxSize = MaxEntries]

Keys(c) == {c[i].key : i \in 1..Len(c)}

\* history h with key made the latest
Touch(h, key) == Append(SelectSeq(h, LAMBDA k : k # key), key)

\* history h without the keys that left the cache
Kept(h, c) == SelectSeq(h, LAMBDA k : k \in Keys(c))

Used(op, key, found, c, getSet, all) ==
    /\ cache' = c
    /\ uses' = [op |-> op, key |-> key, found |-> found,
                evicted |-> IF op = "set" THEN Keys(cache) \ Keys(c) ELSE {},
                oldest |-> IF op = "set" /\ uses.all # <<>>
                           THEN Head(uses.all) ELSE <<"", "">>,
                getSet |-> Kept(getSet, c), all |-> Kept(all, c)]
    /\ UNCHANGED <<options, stats, concurrency, queue, activeCount, req, lastOp,
                   elapsed, queueVars, errorVars, auth, lastAuth, peer, fail, ctor>>

\* cacheManager.get(key)
LruGet(key) ==
    LET g == CacheManagerGet(cache, key) IN
    Used("get", key, g.found, g.cache,
         IF g.found THEN Touch(uses.getSet, key) ELSE uses.getSet,
         IF g.found THEN Touch(uses.all, key) ELSE uses.all)

\* cacheManager.has(key)
LruHas(key) ==
    LET h == CacheManagerHas(cache, key) IN
    Used("has", key, h.found, h.cache, uses.getSet,
         IF h.found THEN Touch(uses.all, key) ELSE uses.all)

\* cacheManager.set(key, value, ttl)
LruSet(key) ==
    Used("set", key, TRUE,
         CacheManagerSet(cache, key, NoResult, options.cacheTtl, options.cacheMaxSize),
         Touch(uses.getSet, key), Touch(uses.all, key))

\* cacheManager.delete(key)
LruDelete(key) ==
    Used("delete", key, CacheIndex(cache, key) # 0, CacheManagerDelete(cache, key),
         uses.getSet, uses.all)

\* cacheManager.clear()
LruClear == Used("clear", <<"", "">>, FALSE, CacheManagerClear(cache), <<>>, <<>>)

InitLru ==
    /\ options = LruOptions
    /\ stats = InitialStats
    /\ cache = <<>>
    /\ concurrency = options.requestConcurrency
    /\ queue = <<>>
    /\ activeCount = 0
    /\ req = <<>>
    /\ lastOp = NoOp
    /\ elapsed = 0
    /\ task = [t \in Tasks |-> "new"]
    /\ started = <<>>
    /\ err = NoError
    /\ budget = Undef
    /\ gate = "none"
    /\ InitExtra

NextLru ==
    \/ \E key \in LruKeys : LruGet(key)
    \/ \E key \in LruKeys : LruHas(key)
    \/ \E key \in LruKeys : LruSet(key)
    \/ \E key \in LruKeys : LruDelete(key)
    \/ LruClear
    \/ Tick

SpecLru == InitLru /\ [][NextLru]_vars

----------------------------------------------------------------------------
(* Clients constructed with enableCache true or false *)

HitsOptions == {[ScenarioOptions EXCEPT !.enableCache = b] : b \in BOOLEAN}

InitHits ==
    /\ options \in HitsOptions
    /\ stats = InitialStats
    /\ cache = <<>>
    /\ concurrency = options.requestConcurrency
    /\ queue = <<>>
    /\ activeCount = 0
    /\ req = [r \in 1..MaxHits |-> IdleReq]
    /\ lastOp = NoOp
    /\ elapsed = 0
    /\ task = [t \in Tasks |-> "new"]
    /\ started = <<>>
    /\ err = NoError
    /\ budget = Undef
    /\ gate = "none"
    /\ InitExtra

NextHits ==
    \/ \E r \in Reqs, call \in Calls : Issue(r, call)
    \/ \E r \in Reqs, out \in LiveOutcomes : TransportDone(r, out)
    \/ \E r \in Reqs : BackoffDone(r)
    \/ Tick

SpecHits == InitHits /\ [][NextHits]_vars

----------------------------------------------------------------------------
(* Retries next to waiting calls: posts with retryCount 1 on one slot *)

\* post('/posts', data, {retryCount: 1})
RetryQueueCalls == {[c EXCEPT !.retryCount = 1] : c \in {x \in Calls : x.method = "POST"}}

InitRetryQueue ==
    /\ options = StatsOptions
    /\ stats = InitialStats
    /\ cache = <<>>
    /\ concurrency = options.requestConcurrency
    /\ queue = <<>>
    /\ activeCount = 0
    /\ req = [r \in 1..MaxWaiting |-> IdleReq]
    /\ lastOp = NoOp
    /\ elapsed = 0
    /\ task = [t \in Tasks |-> "new"]
    /\ started = <<>>
    /\ err = NoError
    /\ budget = Undef
    /\ gate = "none"
    /\ InitExtra

NextRetryQueue ==
    \/ \E r \in Reqs, call \in RetryQueueCalls : Issue(r, call)
    \/ \E r \in Reqs, out \in LiveOutcomes : TransportDone(r, out)
    \/ \E r \in Reqs : BackoffDone(r)
    \/ Tick

SpecRetryQueue == InitRetryQueue /\ [][NextRetryQueue]_vars

(* Cacheable GETs of one client whose bearer token changes between them *)

SharedCalls == {c \in StatsCalls : c.method = "GET"}

InitShared ==
    /\ options = StatsOptions
    /\ stats = InitialStats
    /\ cache = <<>>
    /\ concurrency = options.requestConcurrency
    /\ queue = <<>>
    /\ activeCount = 0
    /\ req = [r \in 1..MaxShared |-> IdleReq]
    /\ lastOp = NoOp
    /\ elapsed = 0
    /\ task = [t \in Tasks |-> "new"]
    /\ started = <<>>
    /\ err = NoError
    /\ budget = Undef
    /\ gate = "none"
    /\ InitExtra

NextShared ==
    \/ \E r \in Reqs, call \in SharedCalls : Issue(r, call)
    \/ \E r \in Reqs, out \in LiveOutcomes : TransportDone(r, out)
    \/ \E r \in Reqs : BackoffDone(r)
    \/ \E token \in Tokens : SetAuthToken(token)
    \/ Tick

SpecShared == InitShared /\ [][NextShared]_vars

----------------------------------------------------------------------------
(* One error through the catch block of _request: any error ErrorFactory    *)
(* can build, caught with any retryCount left in the config                 *)

ErrorStatuses == {NoStatus, 0, 200, 401, 403, 404, 408, 429, 500, 501, 502, 503, 504}

\* catch (error): retry or throw
CatchGate ==
    /\ err # NoError
    /\ gate = "none"
    /\ gate' = IF ShouldRetry(budget, err) THEN "retry" ELSE "throw"
    /\ UNCHANGED <<clientVars, queueVars, err, budget, extraVars>>

InitError ==
    /\ options = DefaultOptions
    /\ stats = InitialStats
    /\ cache = <<>>
    /\ concurrency = options.requestConcurrency
    /\ queue = <<>>
    /\ activeCount = 0
    /\ req = <<>>
    /\ lastOp = NoOp
    /\ elapsed = 0
    /\ task = [t \in Tasks |-> "new"]
    /\ started = <<>>
    /\ err \in {ErrorFactoryCreate(k, s) : k \in ERROR_CODES, s \in ErrorStatuses}
    /\ budget \in {Undef, 0, 1, MaxBudget}
    /\ gate = "none"
    /\ InitExtra

NextError == CatchGate

SpecError == InitError /\ [][NextError]_vars

----------------------------------------------------------------------------
(* new WordPressAPI(baseURL, options) on one pair of arguments. An option   *)
(* value is undefined, a number (v, or v + 0.5 when frac), a boolean or a   *)
(* string.                                                                  *)

Absent == [t |-> "undefined", v |-> 0, frac |-> FALSE]
Num(v) == [t |-> "number", v |-> v, frac |-> FALSE]
Frac(v) == [t |-> "number", v |-> v, frac |-> TRUE]
Bool(b) == [t |-> "boolean", v |-> IF b THEN 1 ELSE 0, frac |-> FALSE]
Str == [t |-> "string", v |-> 0, frac |-> FALSE]

\* z.number().positive(), z.number().nonnegative(), .int(), z.boolean()
Positive(x) == x.t = "number" /\ (x.v > 0 \/ (x.v = 0 /\ x.frac))
NonNegative(x) == x.t = "number" /\ x.v >= 0
IsInt(x) == x.t = "number" /\ ~x.frac
IsBoolean(x) == x.t = "boolean"
IsAbsent(x) == x.t = "undefined"

\* ConfigSchema.parse(options) succeeds
ConfigSchemaParses(g) ==
    /\ IsAbsent(g.timeout) \/ Positive(g.timeout)
    /\ IsAbsent(g.retryCount) \/ (IsInt(g.retryCount) /\ NonNegative(g.retryCount))
    /\ IsAbsent(g.retryDelay) \/ Positive(g.retryDelay)
    /\ IsAbsent(g.enableCache) \/ IsBoolean(g.enableCache)
    /\ IsAbsent(g.requestConcurrency)
          \/ (IsInt(g.requestConcurrency) /\ Positive(g.requestConcurrency))

\* the strings new URL() accepts, among those of the model
WellFormedURLs == {"https://wp.example", "https://wp.example/"}

BaseURLs == {"", "wp.example/blog"} \cup WellFormedURLs

\* _validateConfig(baseURL, options): the error it throws, NoError when none
ValidateConfig(baseURL, g) ==
    IF baseURL = ""
    THEN ErrorFactoryCreate("CONFIG_ERROR", NoStatus)
    ELSE IF baseURL \notin WellFormedURLs
    THEN ErrorFactoryCreate("CONFIG_ERROR", NoStatus)
    ELSE IF ~ConfigSchemaParses(g)
    THEN ErrorFactoryCreate("VALIDATION_ERROR", NoStatus)
    ELSE NoError

\* the options the callers of the model pass
GivenOptions ==
    [timeout : {Absent, Num(0)},
     retryCount : {Num(MaxBudget), Num(0 - 1), Frac(1)},
     retryDelay : {Num(100), Num(0)},
     maxRetryDelay : {Absent, Num(0 - 1)},
     backoffMultiplier : {Absent, Num(0)},
     enableCache : {Bool(TRUE), Str},
     requestConcurrency : {Absent, Num(0)},
     rateLimitRequests : {Absent, Num(0 - 1)},
     rateLimitInterval : {Absent, Num(0)}]

\* {...defaults, ...options} on the fields the model keeps
Merged(g) ==
    [DefaultOptions EXCEPT
        !.retryCount = IF IsAbsent(g.retryCount) THEN @ ELSE g.retryCount.v,
        !.retryDelay = IF IsAbsent(g.retryDelay) THEN @ ELSE g.retryDelay.v,
        !.maxRetryDelay = IF IsAbsent(g.maxRetryDelay) THEN @ ELSE g.maxRetryDelay.v,
        !.backoffMultiplier =
            IF IsAbsent(g.backoffMultiplier) THEN @ ELSE g.backoffMultiplier.v,
        !.enableCache = IF IsAbsent(g.enableCache) THEN @ ELSE g.enableCache.v = 1,
        !.requestConcurrency =
            IF IsAbsent(g.requestConcurrency) THEN @ ELSE g.requestConcurrency.v]

\* new WordPressAPI(ctor.baseURL, ctor.given)
Construct ==
    /\ ctor.result = "none"
    /\ LET e == ValidateConfig(ctor.baseURL, ctor.given) IN
       IF e # NoError
       THEN /\ ctor' = [ctor EXCEPT !.result = "threw", !.error = e]
            /\ UNCHANGED <<options, concurrency>>
       ELSE /\ ctor' = [ctor EXCEPT !.result = "client"]
            /\ options' = Merged(ctor.given)
            /\ concurrency' = Merged(ctor.given).requestConcurrency
    /\ UNCHANGED <<stats, cache, queue, activeCount, req, lastOp, elapsed, queueVars,
                   errorVars, auth, lastAuth, peer, uses, fail>>

InitConstruct ==
    /\ options = DefaultOptions
    /\ stats = InitialStats
    /\ cache = <<>>
    /\ concurrency = options.requestConcurrency
    /\ queue = <<>>
    /\ activeCount = 0
    /\ req = <<>>
    /\ lastOp = NoOp
    /\ elapsed = 0
    /\ task = [t \in Tasks |-> "new"]
    /\ started = <<>>
    /\ err = NoError
    /\ budget = Undef
    /\ gate = "none"
    /\ auth = NoHeader
    /\ lastAuth = NoAuthCall
    /\ peer = [stats |-> InitialStats, pending |-> 0]
    /\ uses = NoUses
    /\ fail = NoFailure
    /\ ctor \in [baseURL : BaseURLs, given : GivenOptions, result : {"none"},
                  error : {NoError}]

NextConstruct == Construct

SpecConstruct == InitConstruct /\ [][NextConstruct]_vars

----------------------------------------------------------------------------
(* One transport failure through the response interceptor and then through  *)
(* the catch block of _request                                              *)

ClassifyStatuses == {400, 401, 403, 404, 408, 429, 500, 502, 503, 504}

Failures ==
    {HttpFailure(s) : s \in ClassifyStatuses}
        \cup {TimeoutFailure, SetupFailure, OtherFailure}
        \cup {SocketFailure(c) : c \in {"ERR_NETWORK", "ECONNREFUSED", "ENOTFOUND",
                                         "ETIMEDOUT"}}
        \cup {CanceledFailure(q) : q \in BOOLEAN}

\* the rejected handler of the response interceptor runs on the failure
Intercept ==
    /\ err = NoError
    /\ err' = ResponseErrorInterceptor(fail)
    /\ UNCHANGED <<clientVars, queueVars, budget, gate, auth, lastAuth, peer, uses,
                   fail, ctor>>

InitClassify ==
    /\ options = DefaultOptions
    /\ stats = InitialStats
    /\ cache = <<>>
    /\ concurrency = options.requestConcurrency
    /\ queue = <<>>
    /\ activeCount = 0
    /\ req = <<>>
    /\ lastOp = NoOp
    /\ elapsed = 0
    /\ task = [t \in Tasks |-> "new"]
    /\ started = <<>>
    /\ err = NoError
    /\ budget \in {Undef, 0, 1, MaxBudget}
    /\ gate = "none"
    /\ auth = NoHeader
    /\ lastAuth = NoAuthCall
    /\ peer = [stats |-> InitialStats, pending |-> 0]
    /\ uses = NoUses
    /\ fail \in Failures
    /\ ctor = NoCtor

NextClassify ==
    \/ Intercept
    \/ CatchGate

SpecClassify == InitClassify /\ [][NextClassify]_vars

----------------------------------------------------------------------------
(* Properties *)

\* the retry budget of a call: its config.retryCount
Budget(call) == IF call.retryCount = Undef THEN 0 ELSE call.retryCount

Running == {t \in Tasks : task[t] = "running"}

InFlight == {r \in Reqs : req[r].pc = "inflight"}

IsFirstCheck(r) == req[r].pc = "idle" /\ req'[r].pc # "idle"

SameKey(c1, c2) == getCacheKey(c1) = getCacheKey(c2)

\* a GET that went to the transport once, succeeded and was stored
StoredByFirstAttempt(r) ==
    /\ req[r].pc = "done"
    /\ req[r].outcome = "resolved"
    /\ ~req[r].hit
    /\ req[r].tcalls = 1
    /\ UsesCache(req[r].call)
    /\ req[r].call.cache

\* C1: activeCount is the number of tasks started and not yet settled, and
\* lies between 0 and concurrency; so at most requestConcurrency transport
\* calls of the client are in flight.
C1_ActiveCountBounded ==
    /\ activeCount = Cardinality(Running) + Cardinality(InFlight)
    /\ 0 <= activeCount
    /\ activeCount <= concurrency

\* a burst of 5 x concurrency tasks is enqueued and none has settled
C1_Witness ==
    /\ activeCount = concurrency
    /\ Len(queue) + activeCount = 5 * concurrency
    /\ Cardinality(Running) = concurrency

C3_ConstructionRetryCountIsBudget ==
    \A r \in Reqs :
        ( /\ req[r].pc = "done"
          /\ req[r].call.retryCount = Undef
          /\ req[r].outcome = "rejected"
          /\ req[r].error.status = 503 )
            => req[r].retries = options.retryCount

\* C4 (as claimed): the delay before the k-th retry of a call (k = 0, 1, ...)
\* is min(retryDelay * backoffMultiplier^k, maxRetryDelay).
C4_ExponentialBackoff ==
    \A r \in Reqs :
        \A k \in 1..Len(req[r].delays) :
            req[r].delays[k] =
                Min(options.retryDelay * Pow(options.backoffMultiplier, k - 1),
                    options.maxRetryDelay)

\* C5: a cacheable GET issued right after an identical one has resolved, and
\* within the ttl, is served from the cache: no transport call, the same
\* result, cacheHits incremented by one.
C5_SecondGetServedFromCache ==
    [][\A r1, r2 \in Reqs :
          ( /\ lastOp = [op |-> "resolved", r |-> r1]
            /\ elapsed <= options.cacheTtl
            /\ StoredByFirstAttempt(r1)
            /\ IsFirstCheck(r2)
            /\ req'[r2].call.cache
            /\ SameKey(req'[r2].call, req[r1].call) )
          => ( /\ req'[r2].pc = "done"
               /\ req'[r2].outcome = "resolved"
               /\ req'[r2].result = req[r1].result
               /\ req'[r1].tcalls + req'[r2].tcalls = 1
               /\ stats'.cacheHits = stats.cacheHits + 1
               /\ stats'.cacheMisses = stats.cacheMisses )]_vars

C5_Witness ==
    \E r1, r2 \in Reqs :
        /\ r1 # r2
        /\ StoredByFirstAttempt(r1)
        /\ req[r2].pc = "done"
        /\ req[r2].hit
        /\ req[r2].att = 1
        /\ req[r2].tcalls = 0
        /\ req[r2].outcome = "resolved"
        /\ req[r2].result = req[r1].result
        /\ SameKey(req[r1].call, req[r2].call)
        /\ stats.cacheHits = 1
        /\ stats.cacheMisses = 1

\* C6: a 429 or 500 failure is retried exactly while retry budget remains; a
\* 404 failure is an UNKNOWN_ERROR and rejects the call at once, whatever
\* budget remains.
C6_RetryByStatus ==
    \A r \in Reqs :
        LET e == req[r].error IN
        /\ e.status = 404
              => e.code = "UNKNOWN_ERROR" /\ req[r].pc = "done"
                    /\ req[r].outcome = "rejected"
        /\ e.status \in {429, 500}
              => /\ req[r].pc \in {"backoff", "done"}
                 /\ (req[r].pc = "backoff") = (req[r].left > 0)
                 /\ req[r].pc = "done" => req[r].outcome = "rejected"

C6_Witness ==
    \E r1, r2 \in Reqs :
        /\ req[r1].pc = "backoff"
        /\ req[r1].error.status = 429
        /\ req[r2].pc = "done"
        /\ req[r2].outcome = "rejected"
        /\ req[r2].error.status = 404
        /\ req[r2].left > 0
        /\ req[r2].retries = 0

\* C7: isRetryable() holds exactly for NETWORK_ERROR, TIMEOUT_ERROR and the
\* statuses 408, 429, 500, 502, 503, 504; a retry starts only when it holds.
C7_IsRetryableGate ==
    LET stated == \/ err.code \in {"NETWORK_ERROR", "TIMEOUT_ERROR"}
                  \/ err.status \in {408, 429, 500, 502, 503, 504}
    IN /\ isRetryable(err) <=> stated
       /\ gate = "retry" => stated

C7_Witness ==
    /\ gate = "retry"
    /\ err.code = "UNKNOWN_ERROR"
    /\ err.status = 504

\* C8 (as claimed): no call is served from the cache a value that was stored
\* more than its ttl ago.
C8_NeverServedPastTtlSinceSet ==
    \A r \in Reqs : req[r].hit => ~req[r].servedStoredLate

\* C8 (amended): no call is served from the cache an entry that was neither
\* stored nor read during the last ttl.
C8_NeverServedPastTtlSinceAccess ==
    \A r \in Reqs : req[r].hit => ~req[r].servedIdleLate

\* an entry kept alive by a hit is served more than ttl after it was stored
C8_Witness ==
    \E r \in Reqs :
        /\ req[r].hit
        /\ req[r].servedStoredLate
        /\ ~req[r].servedIdleLate

\* C9: a cacheable GET issued right after an identical one has resolved, but
\* more than the ttl later, is a cache miss and goes to the transport; when
\* these are the only two calls, two transport calls are made and
\* cacheMisses is 2.
C9_ExpiredEntryIsMiss ==
    [][\A r1, r2 \in Reqs :
          ( /\ lastOp = [op |-> "resolved", r |-> r1]
            /\ elapsed > options.cacheTtl
            /\ StoredByFirstAttempt(r1)
            /\ IsFirstCheck(r2)
            /\ SameKey(req'[r2].call, req[r1].call) )
          => ( /\ req'[r2].pc \in {"queued", "inflight"}
               /\ ~req'[r2].hit
               /\ stats'.cacheMisses = stats.cacheMisses + 1
               /\ stats'.cacheHits = stats.cacheHits
               /\ (\A x \in Reqs \ {r1, r2} : req[x].pc = "idle")
                     => /\ req'[r2].pc = "inflight"
                        /\ req'[r1].tcalls + req'[r2].tcalls = 2
                        /\ stats'.cacheMisses = 2 )]_vars

C9_Witness ==
    \E r1, r2 \in Reqs :
        /\ r1 # r2
        /\ StoredByFirstAttempt(r1)
        /\ SameKey(req[r1].call, req[r2].call)
        /\ req[r2].expired
        /\ req[r2].att = 1
        /\ req[r2].pc = "inflight"
        /\ \A x \in Reqs \ {r1, r2} : req[x].pc = "idle"
        /\ stats.cacheMisses = 2
        /\ stats.cacheHits = 0

\* C10: clearCache() leaves the cache empty, and the GET that follows it is a
\* cache miss (cacheMisses incremented, cacheHits not) that is handed to the
\* queue for a transport call.
C10_ClearCacheThenMiss ==
    [][/\ lastOp'.op = "clear" => cache' = <<>>
       /\ \A r2 \in Reqs :
             ( /\ lastOp.op = "clear"
               /\ IsFirstCheck(r2)
               /\ UsesCache(req'[r2].call) )
             => ( /\ req'[r2].pc \in {"queued", "inflight"}
                  /\ ~req'[r2].hit
                  /\ stats'.cacheMisses = stats.cacheMisses + 1
                  /\ stats'.cacheHits = stats.cacheHits )]_vars

C10_Witness ==
    \E r1, r2 \in Reqs :
        /\ r1 # r2
        /\ StoredByFirstAttempt(r1)
        /\ SameKey(req[r1].call, req[r2].call)
        /\ req[r2].afterClear
        /\ req[r2].att = 1
        /\ req[r2].pc = "inflight"
        /\ req[r2].tcalls = 1
        /\ \A x \in Reqs \ {r1, r2} : req[x].pc = "idle"
        /\ stats.cacheMisses = 2
        /\ stats.cacheHits = 0

\* the id _request assigned when call r was first issued
FirstId(r) == RequestId(r, 1, "request")

IsRetryStep(r) == req[r].pc = "backoff" /\ req'[r].pc # "backoff"

\* C11 (as claimed): the requestId of the result that resolves a call, or of
\* the error that rejects it after its retries, is the id assigned when the
\* call was first issued.
C11_OneRequestIdPerCall ==
    \A r \in Reqs :
        (req[r].pc = "done" /\ req[r].att >= 1)
            => /\ req[r].outcome = "resolved" => req[r].result.requestId = FirstId(r)
               /\ req[r].outcome = "rejected" => req[r].errorId = FirstId(r)

\* C12 (as claimed): the retry of a GET does not consult the cache: the step
\* that starts it leaves cacheHits and cacheMisses unchanged and hands the
\* call to the queue for a new transport call.
C12_RetrySkipsCache ==
    [][\A r \in Reqs :
          (IsRetryStep(r) /\ req[r].call.method = "GET")
            => /\ stats'.cacheHits = stats.cacheHits
               /\ stats'.cacheMisses = stats.cacheMisses
               /\ req'[r].pc \in {"queued", "inflight"}]_vars

\* C13 (as claimed): a GET issued with cache: false is never served from the
\* cache, and its response is not stored.
C13_CacheFalseBypassesCache ==
    \A r \in Reqs :
        (req[r].call.method = "GET" /\ ~req[r].call.cache)
            => /\ ~req[r].hit
               /\ \A i \in 1..Len(cache) : cache[i].value.requestId[1] # r

\* C14: whatever step the client takes, an entry that is new in the cache or
\* has a new value was stored in that step by a GET whose transport call
\* succeeded (and whose response passed validation when it applies), with
\* enableCache and the call's cache flag not false; so no POST and no failed
\* attempt adds or changes an entry.
C14_OnlySuccessfulGetsStored ==
    [][\A i \in 1..Len(cache') :
          LET e == cache'[i] IN
          \/ \E j \in 1..Len(cache) : cache[j].key = e.key /\ cache[j].value = e.value
          \/ \E r \in Reqs :
                /\ req[r].pc = "inflight"
                /\ req'[r].pc = "done"
                /\ req'[r].outcome = "resolved"
                /\ req[r].call.method = "GET"
                /\ req[r].call.cache
                /\ options.enableCache
                /\ e.key = getCacheKey(req[r].call)
                /\ e.value = req'[r].result
                /\ e.value.status \in OkStatuses
                /\ (options.validateResponses /\ req[r].call.responseSchema)
                      => e.value.dataValid]_vars

\* a GET attempt has failed, its retry has succeeded and was stored, and a POST
\* has resolved: the cache holds the one entry of the GET
C14_Witness ==
    \E r1, r2 \in Reqs :
        /\ Len(cache) = 1
        /\ cache[1].value = req[r1].result
        /\ req[r1].call.method = "GET"
        /\ req[r1].outcome = "resolved"
        /\ req[r1].retries = 1
        /\ req[r1].tcalls = 2
        /\ req[r2].call.method = "POST"
        /\ req[r2].pc = "done"
        /\ req[r2].outcome = "resolved"
        /\ stats.failedRequests = 1
        /\ stats.successfulRequests = 2

Count(seq, x) == Cardinality({i \in 1..Len(seq) : seq[i] = x})

Settled == {"resolved", "rejected"}

\* C15: tasks are started in the order they were enqueued (tasks are enqueued
\* in the order 1, 2, ...): when a task has been started, every task enqueued
\* before it and not discarded by clear() was started earlier.
C15_StartOrderIsEnqueueOrder ==
    \A j \in 1..Len(started) :
        \A a \in Tasks :
            (a < started[j] /\ task[a] # "dropped")
                => \E i \in 1..(j - 1) : started[i] = a

\* with one slot, three tasks were started in turn while two more wait
C15_Witness ==
    /\ concurrency = 1
    /\ started = <<1, 2, 3>>
    /\ queue = <<4, 5>>
    /\ task[1] = "rejected"
    /\ task[2] = "resolved"

\* the queue never starts a task twice, keeps each waiting task once, and
\* never leaves a slot free while a task waits
C16_Inv ==
    /\ \A t \in Tasks :
          /\ Count(started, t) = IF task[t] \in Settled \cup {"running"} THEN 1 ELSE 0
          /\ Count(queue, t) = IF task[t] = "waiting" THEN 1 ELSE 0
    /\ queue # <<>> => activeCount = concurrency

\* a settled promise stays as it is; a promise is settled only for a running
\* task, one per step
C16_Step ==
    \A t \in Tasks :
        /\ task[t] \in Settled => task'[t] = task[t]
        /\ (task'[t] \in Settled /\ task[t] \notin Settled)
              => /\ task[t] = "running"
                 /\ \A x \in Tasks \ {t} : task'[x] \in Settled => task'[x] = task[x]

\* C16: every enqueued task that clear() does not discard is started exactly
\* once and its promise is settled exactly once, with the outcome of the
\* task; a task that fails neither fails nor blocks another: a waiting task
\* is started in the end.
C16_ExecutedAndSettledOnce ==
    /\ []C16_Inv
    /\ [][C16_Step]_vars
    /\ \A t \in Tasks : (task[t] = "waiting") ~> (task[t] # "waiting")

\* every task was enqueued, some waited, some failed, and all are settled
C16_Witness ==
    /\ concurrency = 1
    /\ Len(started) = MaxTasks
    /\ \A t \in Tasks : task[t] \in Settled
    /\ task[1] = "rejected"
    /\ task[MaxTasks] = "resolved"
    /\ activeCount = 0

\* a call made and not yet settled
Pending(r) == req[r].pc \notin {"idle", "done"}

\* a settled call was resolved with a result, or rejected with the error of
\* its last attempt; no call makes more than budget + 1 transport calls
C17_Inv ==
    \A r \in Reqs :
        /\ req[r].tcalls <= Budget(req[r].call) + 1
        /\ req[r].pc = "done"
              => \/ req[r].outcome = "resolved" /\ req[r].result # NoResult
                 \/ /\ req[r].outcome = "rejected"
                    /\ req[r].error # NoError
                    /\ req[r].errorId[2] = req[r].att

\* C17: provided every transport call and every rate-limiter wait completes,
\* every call settles in the end, resolved with a result or rejected with
\* the error of its last attempt, after at most budget + 1 transport calls:
\* whenever calls are pending, a time comes when every call made until then
\* is settled (a settled call stays settled).
C17_EveryCallSettles ==
    /\ []C17_Inv
    /\ (\E r \in Reqs : Pending(r)) ~> (\A r \in Reqs : ~Pending(r))

\* one call waited for a token, for the queue and through MaxBudget backoffs
\* and was rejected, another was resolved
C17_Witness ==
    \E r1, r2 \in Reqs :
        /\ req[r1].pc = "done"
        /\ req[r1].outcome = "rejected"
        /\ req[r1].retries = MaxBudget
        /\ req[r1].tcalls = MaxBudget + 1
        /\ req[r2].pc = "done"
        /\ req[r2].outcome = "resolved"
        /\ ~req[r2].hit

\* C18: with backoffMultiplier >= 1, the delays of the retries of a call are
\* non-decreasing and none exceeds maxRetryDelay; so is the delay that
\* _calculateRetryDelay computes, as a function of the attempt.
C18_DelaysNonDecreasingAndCapped ==
    options.backoffMultiplier >= 1
        => /\ \A r \in Reqs :
                 \A k \in 1..Len(req[r].delays) :
                     /\ req[r].delays[k] <= options.maxRetryDelay
                     /\ k > 1 => req[r].delays[k - 1] <= req[r].delays[k]
           /\ \A a \in 0..MaxBudget :
                 /\ calculateRetryDelay(a) <= options.maxRetryDelay
                 /\ calculateRetryDelay(a) <= calculateRetryDelay(a + 1)

\* a call has waited MaxBudget times, each time for the cap
C18_Witness ==
    \E r \in Reqs :
        /\ Len(req[r].delays) = MaxBudget
        /\ options.retryDelay > options.maxRetryDelay
        /\ options.backoffMultiplier > 1
        /\ \A k \in 1..MaxBudget : req[r].delays[k] = options.maxRetryDelay

\* C19 (as claimed): a call that carries a response schema is never resolved
\* by a transport response that does not match it.
C19_SchemaAlwaysApplied ==
    \A r \in Reqs :
        (req[r].call.responseSchema /\ req[r].outcome = "resolved" /\ ~req[r].hit)
            => req[r].result.dataValid

\* C19 (amended): on a client constructed with validateResponses: true, a
\* call that carries a response schema is never resolved by a transport
\* response that does not match it; the VALIDATION_ERROR thrown instead
\* rejects the call and is not retried.
C19_SchemaAppliedWhenEnabled ==
    \A r \in Reqs :
        /\ ( /\ options.validateResponses
             /\ req[r].call.responseSchema
             /\ req[r].outcome = "resolved"
             /\ ~req[r].hit )
              => req[r].result.dataValid
        /\ (req[r].error.code = "VALIDATION_ERROR" /\ req[r].att >= 1)
              => /\ options.validateResponses
                 /\ req[r].call.responseSchema
                 /\ req[r].pc = "done"
                 /\ req[r].outcome = "rejected"

\* a response that fails the schema has rejected a call that had retry budget
C19_Witness ==
    \E r \in Reqs :
        /\ options.validateResponses
        /\ req[r].call.responseSchema
        /\ req[r].pc = "done"
        /\ req[r].outcome = "rejected"
        /\ req[r].error.code = "VALIDATION_ERROR"
        /\ req[r].left = MaxBudget
        /\ req[r].tcalls = 1
        /\ stats.failedRequests = 1
        /\ cache = <<>>

\* C20: a post() with a schema and validate not false whose body fails the
\* schema is rejected with VALIDATION_ERROR in the step that makes the call:
\* no transport call, nothing enqueued, no slot taken, no retry budget used,
\* stats and cache unchanged.
C20_InvalidBodyRejectedUpFront ==
    [][\A r \in Reqs :
          LET c == req'[r].call IN
          ( /\ IsFirstCheck(r)
            /\ c.method = "POST"
            /\ c.schema
            /\ c.validate
            /\ ~c.bodyValid )
          => ( /\ req'[r].pc = "done"
               /\ req'[r].outcome = "rejected"
               /\ req'[r].error.code = "VALIDATION_ERROR"
               /\ req'[r].tcalls = 0
               /\ req'[r].retries = 0
               /\ req'[r].left = c.retryCount
               /\ stats' = stats
               /\ cache' = cache
               /\ queue' = queue
               /\ activeCount' = activeCount )]_vars

C20_Witness ==
    \E r \in Reqs :
        /\ req[r].call.method = "POST"
        /\ req[r].call.schema
        /\ req[r].call.validate
        /\ ~req[r].call.bodyValid
        /\ req[r].call.retryCount = MaxBudget
        /\ req[r].pc = "done"
        /\ req[r].outcome = "rejected"
        /\ req[r].error.code = "VALIDATION_ERROR"
        /\ req[r].att = 0
        /\ stats = InitialStats
        /\ activeCount = 0

\* C21: setAuthToken with a falsy token throws a VALIDATION_ERROR and leaves the
\* Authorization header as it was; with a truthy token it throws nothing and
\* sets the header to the bearer token. Every transport call that starts
\* carries the header of that moment, and a call already sent keeps its own.
C21_SetAuthToken ==
    [][ /\ lastAuth' # lastAuth =>
            IF lastAuth'.token = ""
            THEN /\ lastAuth'.error.code \in {"VALIDATION_ERROR", "CONFIG_ERROR"}
                 /\ auth' = auth
            ELSE /\ lastAuth'.error = NoError
                 /\ auth' = Bearer(lastAuth'.token)
        /\ \A r \in Reqs :
              IF req'[r].tcalls # req[r].tcalls
              THEN req'[r].sentAuth = auth
              ELSE req'[r].sentAuth = req[r].sentAuth
        /\ lastAuth' = lastAuth => auth' = auth ]_vars

\* a call went out with the bearer token set before it, and a later
\* setAuthToken("") failed and left that token in place
C21_Witness ==
    /\ lastAuth.called /\ lastAuth.token = ""
    /\ lastAuth.error.code = "VALIDATION_ERROR"
    /\ auth = Bearer("t1")
    /\ \E r \in Reqs : req[r].tcalls = 2 /\ req[r].sentAuth = Bearer("t1")

StatFields == DOMAIN InitialStats

\* C22: resetStats sets the six counters to 0 and no other step decreases a
\* counter; a step that changes the counters of one instance leaves those of
\* the other instance as they were.
C22_CountersMonotonic ==
    [][ /\ ResetStats => \A f \in StatFields : stats'[f] = 0
        /\ ~ResetStats => \A f \in StatFields : stats'[f] >= stats[f]
        /\ PeerResetStats => \A f \in StatFields : peer'.stats[f] = 0
        /\ ~PeerResetStats => \A f \in StatFields : peer'.stats[f] >= peer.stats[f]
        /\ stats' # stats => peer' = peer
        /\ peer' # peer => stats' = stats ]_vars

\* every counter of the client has been raised, while the second instance has
\* counted a call of its own and been reset
C22_Witness ==
    /\ \A f \in StatFields : stats[f] > 0
    /\ peer.stats.totalRequests = 0
    /\ peer.stats.successfulRequests = 1

\* a set step that evicts, and all it may evict: one key, and only when the
\* key set is new and the cache is full
C23_EvictsOnlyWhenFull ==
    (uses' # uses /\ uses'.op = "set") =>
        /\ Cardinality(uses'.evicted) <= 1
        /\ uses'.evicted # {} <=>
              (uses'.key \notin Keys(cache) /\ Len(cache) = options.cacheMaxSize)
        /\ uses'.evicted = Keys(cache) \ Keys(cache')

\* C23 as stated: the cache never holds more than its maximum, and the entry
\* a set evicts is the one whose latest get, has or set is the oldest.
C23_EvictsOldestGetHasSet ==
    /\ [](Len(cache) <= options.cacheMaxSize)
    /\ [][ /\ C23_EvictsOnlyWhenFull
           /\ (uses' # uses /\ uses'.op = "set" /\ uses'.evicted # {}) =>
                  uses'.evicted = {Head(uses.all)} ]_vars

\* C23 amended: the cache never holds more than its maximum, and the entry a
\* set evicts is the one whose latest get or set is the oldest; a has does
\* not count.
C23_EvictsOldestGetSet ==
    /\ [](Len(cache) <= options.cacheMaxSize)
    /\ [][ /\ C23_EvictsOnlyWhenFull
           /\ (uses' # uses /\ uses'.op = "set" /\ uses'.evicted # {}) =>
                  uses'.evicted = {Head(uses.getSet)} ]_vars

\* a set on the full cache evicted a key that a has had found after the
\* latest get or set of another key, which stays
C23_Witness ==
    /\ uses.op = "set"
    /\ uses.evicted # {}
    /\ uses.evicted # {uses.oldest}
    /\ uses.oldest \in Keys(cache)
    /\ Len(cache) = options.cacheMaxSize

\* the timeout signal of axios
TimeoutSignal(e) == e.isAxios /\ e.code = "ECONNABORTED"

Classified == err # NoError

\* C24 as stated: a failure of a request that was sent and got no response is
\* a NETWORK_ERROR, the timeout signal or not, and a TIMEOUT_ERROR comes only
\* from a failure that has a response.
C24_NoResponseFirst ==
    Classified =>
        /\ (fail.isAxios /\ fail.hasRequest /\ ~fail.hasResponse)
              => err.code = "NETWORK_ERROR"
        /\ err.code = "TIMEOUT_ERROR" => (TimeoutSignal(fail) /\ fail.hasResponse)

\* C24 amended: the timeout signal comes first. A failure is a TIMEOUT_ERROR
\* exactly when it carries the timeout signal, response or not; it is a
\* NETWORK_ERROR exactly when it is an axios error without the timeout signal
\* and without a response for which a request was made.
C24_TimeoutSignalFirst ==
    Classified =>
        /\ err.code = "TIMEOUT_ERROR" <=> TimeoutSignal(fail)
        /\ err.code = "NETWORK_ERROR" <=>
              (fail.isAxios /\ ~TimeoutSignal(fail) /\ ~fail.hasResponse
                 /\ fail.hasRequest)
        /\ (~TimeoutSignal(fail) /\ ~fail.hasResponse /\ ~(fail.isAxios /\ fail.hasRequest))
              => (err.code = "UNKNOWN_ERROR" /\ err.status = NoStatus)

\* a timed-out call, which got no response, was classified TIMEOUT_ERROR and
\* sent to a retry
C24_Witness ==
    /\ fail = TimeoutFailure
    /\ err.code = "TIMEOUT_ERROR"
    /\ budget = MaxBudget
    /\ gate = "retry"

\* C25: a failure that carries a response is classified by its status alone:
\* 401 and 403 give AUTH_ERROR, 429 gives RATE_LIMIT_ERROR, any other status
\* gives UNKNOWN_ERROR, and the error carries the status of the response.
C25_ClassifiedByStatus ==
    (Classified /\ fail.hasResponse) =>
        /\ err.status = fail.status
        /\ fail.status \in {401, 403} => err.code = "AUTH_ERROR"
        /\ fail.status = 429 => err.code = "RATE_LIMIT_ERROR"
        /\ fail.status \notin {401, 403, 429} => err.code = "UNKNOWN_ERROR"

\* a 503 became an UNKNOWN_ERROR carrying 503, which the gate retried
C25_Witness ==
    /\ fail = HttpFailure(503)
    /\ err = ErrorFactoryCreate("UNKNOWN_ERROR", 503)
    /\ budget = 1
    /\ gate = "retry"

\* C29: a transport call cancelled through the caller's signal is rejected
\* with an ABORT_ERROR and is never retried.
C29_CancelIsAbortError ==
    (Classified /\ fail.code = "ERR_CANCELED") =>
        /\ err.code = "ABORT_ERROR"
        /\ gate # "retry"

\* the checks the nine configuration values are to pass
AllValuesValid(g) ==
    /\ ConfigSchemaParses(g)
    /\ IsAbsent(g.maxRetryDelay) \/ NonNegative(g.maxRetryDelay)
    /\ IsAbsent(g.backoffMultiplier) \/ Positive(g.backoffMultiplier)
    /\ IsAbsent(g.rateLimitRequests) \/ Positive(g.rateLimitRequests)
    /\ IsAbsent(g.rateLimitInterval) \/ Positive(g.rateLimitInterval)

\* C26: construction throws CONFIG_ERROR for a missing or malformed base
\* address, throws VALIDATION_ERROR when one of the nine configuration values
\* fails its check, and gives a client only when all checks pass.
C26_ConstructionValidatesAll ==
    ctor.result # "none" =>
        /\ ctor.baseURL \notin WellFormedURLs =>
              (ctor.result = "threw" /\ ctor.error.code = "CONFIG_ERROR")
        /\ (ctor.baseURL \in WellFormedURLs /\ ~AllValuesValid(ctor.given)) =>
              (ctor.result = "threw" /\ ctor.error.code = "VALIDATION_ERROR")
        /\ ctor.result = "client" =>
              (ctor.baseURL \in WellFormedURLs /\ AllValuesValid(ctor.given))

\* the step in which response validation throws for call r
ResponseRejected(r) ==
    /\ req[r].pc = "inflight"
    /\ req'[r].error.code = "VALIDATION_ERROR"

\* C27: the step in which response validation throws rejects the caller with
\* the VALIDATION_ERROR, whatever retry budget is left: no retry is counted,
\* no transport call is added, the budget is not used and the cache is left
\* as it was; a call whose first response was invalid has made one transport
\* call.
C27_ResponseValidationNotRetried ==
    /\ [][\A r \in Reqs :
            ResponseRejected(r) =>
                /\ req'[r].pc = "done"
                /\ req'[r].outcome = "rejected"
                /\ req'[r].retries = req[r].retries
                /\ req'[r].tcalls = req[r].tcalls
                /\ req'[r].left = req[r].left
                /\ stats'.retryCount = stats.retryCount
                /\ cache' = cache]_vars
    /\ [](\A r \in Reqs :
            (req[r].error.code = "VALIDATION_ERROR" /\ req[r].att = 1)
                => (req[r].pc = "done" /\ req[r].tcalls = 1 /\ req[r].retries = 0))

\* after a 503 and its retry, the second response failed the schema and the
\* call was rejected with retry budget still left
C27_Witness ==
    \E r \in Reqs :
        /\ req[r].pc = "done"
        /\ req[r].outcome = "rejected"
        /\ req[r].error.code = "VALIDATION_ERROR"
        /\ req[r].att = 2
        /\ req[r].tcalls = 2
        /\ req[r].left > 0
        /\ stats.retryCount = 1
        /\ cache = <<>>

\* the step in which the transport call of r fails with failure f
FailsWith(r, f) ==
    /\ req[r].pc = "inflight"
    /\ req'[r].pc # "inflight"
    /\ req'[r].failure = f

\* C28: a transport call that times out gives a TIMEOUT_ERROR, and the step
\* treats it as it treats a NETWORK_ERROR: with budget left a retry is
\* counted and the call waits for its retry, otherwise the call is rejected;
\* the retry takes one unit of the budget. A call with budget N rejected with
\* TIMEOUT_ERROR has made N retries and N + 1 transport calls.
C28_TimeoutRetriedLikeNetwork ==
    /\ [][\A r \in Reqs : \A f \in {TimeoutFailure, NetworkFailure} :
            FailsWith(r, f) =>
                /\ req'[r].error.code = IF f = TimeoutFailure THEN "TIMEOUT_ERROR"
                                                              ELSE "NETWORK_ERROR"
                /\ IF req[r].left > 0
                   THEN /\ req'[r].pc = "backoff"
                        /\ req'[r].retries = req[r].retries + 1
                        /\ req'[r].left = req[r].left
                        /\ stats'.retryCount = stats.retryCount + 1
                   ELSE /\ req'[r].pc = "done"
                        /\ req'[r].outcome = "rejected"
                        /\ stats'.retryCount = stats.retryCount]_vars
    /\ [][\A r \in Reqs :
            (IsRetryStep(r) /\ req[r].error.code = "TIMEOUT_ERROR")
                => (req'[r].left = req[r].left - 1 /\ req'[r].att = req[r].att + 1)]_vars
    /\ [](\A r \in Reqs :
            (req[r].pc = "done" /\ req[r].error.code = "TIMEOUT_ERROR")
                => /\ req[r].outcome = "rejected"
                   /\ req[r].failure = TimeoutFailure
                   /\ req[r].retries = Budget(req[r].call)
                   /\ req[r].tcalls = Budget(req[r].call) + 1)

\* a call with budget MaxBudget was rejected with TIMEOUT_ERROR after
\* MaxBudget + 1 failed transport calls
C28_Witness ==
    \E r \in Reqs :
        /\ req[r].pc = "done"
        /\ req[r].outcome = "rejected"
        /\ req[r].error.code = "TIMEOUT_ERROR"
        /\ req[r].call.retryCount = MaxBudget
        /\ req[r].left = 0
        /\ req[r].tcalls = MaxBudget + 1
        /\ stats.failedRequests = MaxBudget + 1
        /\ stats.totalRequests = MaxBudget + 1

\* C30: with a rate limiter, a token is removed only by an attempt that the
\* queue has admitted and that is about to make its transport call: a call
\* served from the cache, waiting in the queue or between attempts has removed
\* as many tokens as it has made transport calls.
C30_TokenOnlyBeforeTransport ==
    \A r \in Reqs :
        /\ req[r].tokens <= req[r].tcalls + 1
        /\ req[r].pc \in {"queued", "backoff", "done"} => req[r].tokens = req[r].tcalls
        /\ (req[r].pc = "done" /\ req[r].hit /\ req[r].att = 1) => req[r].tokens = 0

\* the step in which an attempt of call r, the first or a retry, enters _request
IsAttemptStep(r) == req'[r].att = req[r].att + 1

\* an unexpired entry is stored under the key of call c
LiveEntry(c) ==
    \E i \in 1..Len(cache) : cache[i].key = getCacheKey(c) /\ ~IsStale(cache[i])

\* C31: an attempt of a GET on a client with enableCache adds one to
\* cacheHits when an unexpired entry is stored under its key, and is then
\* resolved with the stored result with nothing enqueued and no transport
\* call; otherwise it adds one to cacheMisses and goes to the queue. An
\* attempt of another method, or on a client without enableCache, changes
\* neither counter and leaves the cache as it is; no other step changes the
\* two counters.
C31_HitOrMissPerGetAttempt ==
    [][ /\ \A r \in Reqs :
            IsAttemptStep(r) =>
                LET c == req'[r].call IN
                IF c.method = "GET" /\ options.enableCache
                THEN IF LiveEntry(c)
                     THEN /\ stats'.cacheHits = stats.cacheHits + 1
                          /\ stats'.cacheMisses = stats.cacheMisses
                          /\ req'[r].pc = "done"
                          /\ req'[r].outcome = "resolved"
                          /\ req'[r].result = cache[CacheIndex(cache, getCacheKey(c))].value
                          /\ req'[r].tcalls = req[r].tcalls
                          /\ queue' = queue
                          /\ activeCount' = activeCount
                     ELSE /\ stats'.cacheMisses = stats.cacheMisses + 1
                          /\ stats'.cacheHits = stats.cacheHits
                          /\ req'[r].pc \in {"queued", "inflight"}
                ELSE /\ stats'.cacheHits = stats.cacheHits
                     /\ stats'.cacheMisses = stats.cacheMisses
                     /\ cache' = cache
                     /\ req'[r].pc \in {"queued", "inflight"}
        /\ (\A r \in Reqs : ~IsAttemptStep(r)) =>
              /\ stats'.cacheHits = stats.cacheHits
              /\ stats'.cacheMisses = stats.cacheMisses
        /\ ~options.enableCache => cache' = <<>> ]_vars

\* on a client with enableCache a GET missed, then failed and missed again on
\* its retry, and after it resolved a second GET was served from the cache
C31_Witness ==
    /\ options.enableCache
    /\ stats.cacheMisses = 2
    /\ stats.cacheHits = 1
    /\ \E r1, r2 \in Reqs :
          /\ req[r1].pc = "done" /\ req[r1].tcalls = 2 /\ ~req[r1].hit
          /\ req[r2].pc = "done" /\ req[r2].hit /\ req[r2].tcalls = 0

\* C32: every transport call of a request carries the Authorization header
\* that was in place when the request was issued, whatever setAuthToken did
\* while the request waited in the queue or for its retry.
C32_SentWithHeaderOfIssue ==
    \A r \in Reqs : req[r].tcalls > 0 => req[r].sentAuth = req[r].issuedAuth

\* the step of a clear() that removes tasks: the waiting list shrinks and no
\* task is started
ClearStep == Len(queue') < Len(queue) /\ started' = started

\* C33: clear() removes every waiting task and changes nothing else:
\* activeCount and the started and settled tasks stay as they are; a removed
\* task is never started and its promise is never settled; a task started
\* before the clear() still settles, and a task enqueued afterwards is started
\* when a slot is free.
C33_ClearDropsWaitingOnly ==
    /\ [][ClearStep =>
            /\ queue' = <<>>
            /\ activeCount' = activeCount
            /\ \A t \in Tasks :
                  task'[t] = IF task[t] = "waiting" THEN "dropped" ELSE task[t]]_vars
    /\ [][\A t \in Tasks : task[t] = "dropped" => task'[t] = "dropped"]_vars
    /\ [](\A t \in Tasks :
            task[t] = "dropped" => (Count(started, t) = 0 /\ Count(queue, t) = 0))
    /\ \A t \in Tasks : (task[t] = "running") ~> (task[t] \in Settled)
    /\ \A t \in Tasks : (task[t] = "waiting") ~> (task[t] \in Settled \cup {"dropped"})

\* with one slot: the first task ran while clear() dropped the second; the
\* third, enqueued after the clear(), was started when the first settled
C33_Witness ==
    /\ concurrency = 1
    /\ task[1] = "resolved"
    /\ task[2] = "dropped"
    /\ task[3] = "running"
    /\ started = <<1, 3>>
    /\ activeCount = 1

\* the step in which a running task settles
SettleStep(t) == task[t] = "running" /\ task'[t] \in Settled

\* C34: no task waits while a slot is free: the waiting list is non-empty
\* only when activeCount equals concurrency. An enqueue with a free slot
\* starts the task at once, and a slot freed by a settling task starts
\* exactly the task at the head of the waiting list.
C34_WorkConserving ==
    /\ [](queue # <<>> => activeCount = concurrency)
    /\ [](Len(queue) = Cardinality({t \in Tasks : task[t] = "waiting"}))
    /\ [][\A t \in Tasks :
            SettleStep(t) =>
                IF queue = <<>>
                THEN /\ activeCount' = activeCount - 1
                     /\ started' = started
                     /\ queue' = queue
                ELSE /\ activeCount' = activeCount
                     /\ started' = Append(started, Head(queue))
                     /\ queue' = Tail(queue)
                     /\ task'[Head(queue)] = "running"]_vars
    /\ [][\A t \in Tasks :
            (task[t] = "new" /\ task'[t] # "new") =>
                IF activeCount < concurrency
                THEN task'[t] = "running" /\ activeCount' = activeCount + 1
                                         /\ queue' = queue
                ELSE task'[t] = "waiting" /\ queue' = Append(queue, t)
                                         /\ activeCount' = activeCount]_vars

\* with two slots taken and two tasks waiting, a settled task has let in the
\* head of the waiting list
C34_Witness ==
    /\ concurrency = 2
    /\ activeCount = 2
    /\ task[1] \in Settled
    /\ started = <<1, 2, 3>>
    /\ queue = <<4, 5>>

\* the calls with an attempt in progress: waiting for a token, waiting in the
\* queue or in flight
InProgress == {r \in Reqs : req[r].pc \in {"rateWait", "queued", "inflight"}}

\* the attempts of call r that have ended with a failure
FailedAttempts(r) ==
    req[r].retries + (IF req[r].pc = "done" /\ req[r].outcome = "rejected"
                         /\ req[r].att >= 1 THEN 1 ELSE 0)

\* C35: without resetStats every attempt, first or retry, adds one to
\* totalRequests and, when it ends, one to exactly one of cacheHits,
\* successfulRequests and failedRequests: the three add up to totalRequests
\* less the attempts in progress, and a call resolved by the transport after
\* k retries has made k + 1 attempts of which k failed.
C35_AttemptsAccounted ==
    /\ stats.totalRequests = SumOver([r \in Reqs |-> req[r].att], Reqs)
    /\ stats.failedRequests = SumOver([r \in Reqs |-> FailedAttempts(r)], Reqs)
    /\ stats.successfulRequests =
          Cardinality({r \in Reqs : req[r].outcome = "resolved" /\ ~req[r].hit})
    /\ stats.cacheHits = Cardinality({r \in Reqs : req[r].hit})
    /\ stats.successfulRequests + stats.failedRequests + stats.cacheHits
          = stats.totalRequests - Cardinality(InProgress)
    /\ \A r \in Reqs :
          (req[r].outcome = "resolved" /\ ~req[r].hit)
              => (req[r].att = req[r].retries + 1 /\ FailedAttempts(r) = req[r].retries)

\* one call was resolved by the transport after MaxBudget retries while
\* another is in flight
C35_Witness ==
    \E r1, r2 \in Reqs :
        /\ req[r1].outcome = "resolved" /\ ~req[r1].hit
        /\ req[r1].retries = MaxBudget
        /\ req[r2].pc = "inflight" /\ req[r2].att = 1
        /\ stats.totalRequests = MaxBudget + 2
        /\ stats.failedRequests = MaxBudget
        /\ stats.successfulRequests = 1

\* C36: successfulRequests + failedRequests + cacheHits <= totalRequests and
\* retryCount <= failedRequests in every state, resetStats included.
C36_CountersConsistent ==
    /\ stats.successfulRequests + stats.failedRequests + stats.cacheHits
          <= stats.totalRequests
    /\ stats.retryCount <= stats.failedRequests

\* C37: in every state the cacheHitRate of getStats() is a number between 0
\* and 100.
C37_CacheHitRateIsNumber ==
    LET rate == getStatsCacheHitRate IN
    /\ ~rate.nan
    /\ ~rate.inf
    /\ 0 <= rate.num
    /\ rate.num <= 100 * rate.den

\* the calls waiting in the queue
Waiting == {r \in Reqs : req[r].pc = "queued"}

Storing(c) == c.method = "GET" /\ options.enableCache /\ c.cache

\* the value stored under the key of call c
StoredValue(ch, c) == ch[CacheIndex(ch, getCacheKey(c))].value

\* C39: a GET issued on a cold cache while identical GETs are waiting or in
\* flight records a miss of its own and goes to the queue for a transport
\* call of its own; a call resolved by the transport was resolved by its own
\* transport call; each successful response of a storing GET overwrites the
\* entry, which therefore holds the response that completed last.
C39_IdenticalGetsNotCoalesced ==
    /\ [][\A r1, r2 \in Reqs :
            ( /\ IsFirstCheck(r2)
              /\ req'[r2].call.method = "GET" /\ options.enableCache
              /\ cache = <<>>
              /\ req[r1].pc \in {"queued", "inflight"}
              /\ SameKey(req[r1].call, req'[r2].call) )
            => ( /\ stats'.cacheMisses = stats.cacheMisses + 1
                 /\ stats'.cacheHits = stats.cacheHits
                 /\ req'[r2].pc = "queued" )]_vars
    /\ [][\A r \in Reqs :
            ( /\ req[r].pc = "inflight"
              /\ req'[r].outcome = "resolved"
              /\ Storing(req[r].call) )
            => ( /\ CacheIndex(cache', getCacheKey(req[r].call)) # 0
                 /\ StoredValue(cache', req[r].call) = req'[r].result
                 /\ req'[r].result.requestId = RequestId(r, req[r].att, "request")
                 /\ req'[r].tcalls >= 1 )]_vars
    /\ [](\A r \in Reqs :
            (lastOp = [op |-> "resolved", r |-> r] /\ Storing(req[r].call))
                => StoredValue(cache, req[r].call) = req[r].result)

\* two identical GETs issued on a cold cache both missed and both made a
\* transport call; the entry holds the response of the second, which
\* completed last
C39_Witness ==
    /\ options.enableCache
    /\ stats.cacheMisses = 2
    /\ stats.cacheHits = 0
    /\ \A r \in 1..2 :
          /\ req[r].outcome = "resolved"
          /\ req[r].call.method = "GET" /\ req[r].call.cache
          /\ req[r].tcalls = 1
    /\ Len(cache) = 1
    /\ cache[1].value = req[2].result
    /\ req[2].result # req[1].result

\* the response call r received from the transport is stored and unexpired
HoldsResponseOf(r) ==
    /\ req[r].outcome = "resolved"
    /\ ~req[r].hit
    /\ \E i \in 1..Len(cache) :
           cache[i].value = req[r].result /\ ~IsStale(cache[i])

\* C40: setAuthToken leaves the cache as it is, and a GET issued while the
\* unexpired response of an identical GET is stored is resolved with that
\* response and without a transport call, whatever Authorization header
\* the earlier GET was sent with and whatever header is set now.
C40_CacheSharedAcrossTokens ==
    /\ [][auth' # auth => cache' = cache]_vars
    /\ [][\A r1, r2 \in Reqs :
            ( /\ IsFirstCheck(r2)
              /\ HoldsResponseOf(r1)
              /\ req'[r2].call.method = req[r1].call.method
              /\ req'[r2].call.url = req[r1].call.url )
            => ( /\ req'[r2].pc = "done"
                 /\ req'[r2].outcome = "resolved"
                 /\ req'[r2].hit
                 /\ req'[r2].result = req[r1].result
                 /\ req'[r2].tcalls = 0 )]_vars

\* a GET sent without a token was stored; after setAuthToken an identical
\* GET was served the same response from the cache
C40_Witness ==
    /\ req[1].outcome = "resolved" /\ ~req[1].hit
    /\ req[1].sentAuth = NoHeader
    /\ req[2].outcome = "resolved" /\ req[2].hit
    /\ req[2].issuedAuth = Bearer("t1")
    /\ req[2].tcalls = 0
    /\ req[2].result = req[1].result

====
